---------------------------- MODULE Spec2Model ----------------------------
(***************************************************************************)
(* Model of the Excel <-> JSON converter pair                              *)
(*   src/excel2json.py  (workbook -> JSON, "forward")                      *)
(*   src/json2excel.py  (JSON -> workbook, "reverse")                      *)
(*                                                                         *)
(* The two scripts work on one directory: excel2json reads <stem>.xlsx and *)
(* writes <stem>.json, json2excel reads <stem>.json and writes <stem>.xlsx *)
(* (same stem, so a round trip overwrites the workbook file).  The state   *)
(* is the directory (xlsx, jfile), the in-memory workbook of the running   *)
(* script (wb), the JSON document it builds or reads (doc), the script     *)
(* that runs or ran last (last), its position (pc, idx), the lines it has  *)
(* logged (log), and the JSON documents written so far (hist).             *)
(*                                                                         *)
(* Python strings are sequences of one-character strings, so that          *)
(* formatting (f-strings, isoformat, cell_addr) and parsing                *)
(* (range_boundaries, fromisoformat) are computed, not assumed.            *)
(*                                                                         *)
(* openpyxl is a library outside src/.  Its operations are modelled at the *)
(* places the scripts call them, after openpyxl 3.1:                       *)
(*   - ws.cell(r, c, value) creates the cell; a read of a missing cell     *)
(*     yields None (the read's creation of the cell is not modelled);      *)
(*   - ws.merge_cells(rng) raises on an unparsable or inverted range,      *)
(*     registers the range unless an existing range contains it, and turns *)
(*     every cell of the range but the top-left one into an empty          *)
(*     MergedCell;                                                         *)
(*   - ws.add_table raises when the workbook already has a table of that   *)
(*     display name;                                                       *)
(*   - wb.save drops cells whose value is None; load_workbook recreates    *)
(*     the cells of every merged range and reads dates as datetimes.       *)
(* I/O failures of the final write (unwritable path) are not modelled.     *)
(***************************************************************************)
EXTENDS Integers, Sequences, FiniteSets, TLC

VARIABLES xlsx, jfile, wb, doc, last, pc, idx, log, hist, runs, first_visible,
          original_data, loaded, enriched_rows, output_obj, step, elog

\* The state of excel2json and json2excel, and the state of complaint_eval
converters == <<xlsx, jfile, wb, doc, last, pc, idx, log, hist, runs, first_visible>>

enricher == <<original_data, loaded, enriched_rows, output_obj, step, elog>>

vars == <<converters, enricher>>

(***************************************************************************)
(* Generic helpers                                                         *)
(***************************************************************************)
Max2(a, b) == IF a >= b THEN a ELSE b

SetMax(S) == CHOOSE m \in S : \A o \in S : o <= m

SetMin(S) == CHOOSE m \in S : \A o \in S : m <= o

Range(s) == {s[i] : i \in DOMAIN s}

Some(v) == <<v>>

Absent == <<>>

RECURSIVE Concat(_)
Concat(ss) == IF ss = <<>> THEN <<>> ELSE Head(ss) \o Concat(Tail(ss))

(***************************************************************************)
(* Cell / JSON values.  One record shape for every kind, so that values of *)
(* different kinds can be compared:                                        *)
(*   null, bool (n in 0..1), num (n), str (s), datetime (d = y,m,d,H,M,S), *)
(*   date (d = y,m,d), obj (any other JSON value: list or object)          *)
(***************************************************************************)
Null == [k |-> "null", s |-> <<>>, d |-> <<>>, n |-> 0]

NumV(n) == [k |-> "num", s |-> <<>>, d |-> <<>>, n |-> n]

BoolV(b) == [k |-> "bool", s |-> <<>>, d |-> <<>>, n |-> IF b THEN 1 ELSE 0]

StrV(s) == [k |-> "str", s |-> s, d |-> <<>>, n |-> 0]

DtV(d) == [k |-> "datetime", s |-> <<>>, d |-> d, n |-> 0]

DateV(d) == [k |-> "date", s |-> <<>>, d |-> d, n |-> 0]

\* A JSON list or object, with its str() form
ObjV(s) == [k |-> "obj", s |-> s, d |-> <<>>, n |-> 0]

(***************************************************************************)
(* Characters, decimal formatting and parsing                              *)
(***************************************************************************)
DigitChars == <<"0", "1", "2", "3", "4", "5", "6", "7", "8", "9">>

LetterChars == <<"A", "B", "C", "D", "E", "F", "G", "H", "I", "J", "K", "L", "M",
                 "N", "O", "P", "Q", "R", "S", "T", "U", "V", "W", "X", "Y", "Z">>

IsDigit(ch) == ch \in Range(DigitChars)

IsLetter(ch) == ch \in Range(LetterChars)

DigitVal(ch) == (CHOOSE i \in DOMAIN DigitChars : DigitChars[i] = ch) - 1

LetterVal(ch) == CHOOSE i \in DOMAIN LetterChars : LetterChars[i] = ch

\* str(n) / f"{n}" of a non-negative int
RECURSIVE Digits(_)
Digits(n) == IF n < 10 THEN <<DigitChars[n + 1]>>
             ELSE Digits(n \div 10) \o <<DigitChars[(n % 10) + 1]>>

\* f"{n:0w}": zero-padded decimal, as isoformat prints its fields
RECURSIVE Pad(_, _)
Pad(n, w) == IF w <= 1 THEN Digits(n)
             ELSE IF Len(Digits(n)) >= w THEN Digits(n)
             ELSE <<"0">> \o Pad(n, w - 1)

AllDigits(s) == s # <<>> /\ \A i \in DOMAIN s : IsDigit(s[i])


\* int(s) of a digit string
RECURSIVE ParseNat(_)
ParseNat(s) == IF s = <<>> THEN 0
               ELSE ParseNat(SubSeq(s, 1, Len(s) - 1)) * 10 + DigitVal(s[Len(s)])

\* s[a:b] of Python with 1-based inclusive positions a..b, cut to the string
Slice(s, a, b) == SubSeq(s, a, IF b > Len(s) THEN Len(s) ELSE b)

(***************************************************************************)
(* Cell addresses and ranges                                               *)
(***************************************************************************)
\* openpyxl.utils.get_column_letter: base-26 letters; <<>> stands for the
\* ValueError outside 1..18278
RECURSIVE ColLetters(_)
ColLetters(c) == IF c <= 0 THEN <<>>
                 ELSE LET r == IF c % 26 = 0 THEN 26 ELSE c % 26
                      IN  ColLetters((c - r) \div 26) \o <<LetterChars[r]>>

get_column_letter(c) == IF c >= 1 /\ c <= 18278 THEN ColLetters(c) ELSE <<>>

\* openpyxl.utils.column_index_from_string
RECURSIVE column_index_from_string(_)
column_index_from_string(s) ==
    IF s = <<>> THEN 0
    ELSE column_index_from_string(SubSeq(s, 1, Len(s) - 1)) * 26 + LetterVal(s[Len(s)])

\* cell_addr(row, col) = f"{get_column_letter(col)}{row}"; <<>> when
\* get_column_letter raises
AddrOf(letters, row) == IF letters = <<>> THEN <<>> ELSE letters \o Digits(row)

cell_addr(row, col) == AddrOf(get_column_letter(col), row)

\* Number of leading letters of s
RECURSIVE LetterPrefix(_)
LetterPrefix(s) == IF s # <<>> /\ IsLetter(Head(s)) THEN 1 + LetterPrefix(Tail(s)) ELSE 0

\* A coordinate "<letters><digits>": <<col, row>>, or <<>> if s is not one
CoordAt(s, n) ==
    IF n >= 1 /\ n <= 3 /\ AllDigits(SubSeq(s, n + 1, Len(s)))
    THEN <<column_index_from_string(SubSeq(s, 1, n)), ParseNat(SubSeq(s, n + 1, Len(s)))>>
    ELSE <<>>

ParseCoord(s) == CoordAt(s, LetterPrefix(s))

ColonAt(s) == {i \in DOMAIN s : s[i] = ":"}

\* openpyxl.utils.range_boundaries for "A1" and "A1:B2" (column-only and
\* row-only ranges are not among the modelled inputs):
\* <<min_col, min_row, max_col, max_row>>, or <<>> for the ValueError.
\* No ordering of the corners is checked, as in the library.
Corners(a, b) == IF a = <<>> \/ b = <<>> THEN <<>> ELSE <<a[1], a[2], b[1], b[2]>>

SplitAt(s, i) == Corners(ParseCoord(SubSeq(s, 1, i - 1)), ParseCoord(SubSeq(s, i + 1, Len(s))))

BoundsIn(s, colons) ==
    IF colons = {} THEN Corners(ParseCoord(s), ParseCoord(s))
    ELSE IF Cardinality(colons) # 1 THEN <<>>
    ELSE SplitAt(s, CHOOSE j \in colons : TRUE)

range_boundaries(s) == BoundsIn(s, ColonAt(s))

\* str(m) of a merged range (CellRange.coord): "A1" for a single cell
CoordStr(first, second, single) == IF single THEN first ELSE first \o <<":">> \o second

RangeStr(b) ==
    CoordStr(cell_addr(b[2], b[1]), cell_addr(b[4], b[3]), b[1] = b[3] /\ b[2] = b[4])

\* Cells <<row, col>> of a rectangle <<min_col, min_row, max_col, max_row>>
CellsOf(b) == {<<r, c>> : r \in b[2]..b[4], c \in b[1]..b[3]}

(***************************************************************************)
(* Dates: datetime.isoformat / fromisoformat, str()                        *)
(***************************************************************************)
IsLeap(y) == (y % 4 = 0 /\ y % 100 # 0) \/ y % 400 = 0

DaysIn(y, m) == IF m = 2 THEN (IF IsLeap(y) THEN 29 ELSE 28)
                ELSE IF m \in {4, 6, 9, 11} THEN 30 ELSE 31

\* "YYYY-MM-DD" of a date or the date part of a datetime
IsoDate(d) == Pad(d[1], 4) \o <<"-">> \o Pad(d[2], 2) \o <<"-">> \o Pad(d[3], 2)

IsoTime(d) == Pad(d[4], 2) \o <<":">> \o Pad(d[5], 2) \o <<":">> \o Pad(d[6], 2)

\* obj.isoformat() of a datetime (no microseconds, no tzinfo) or a date
isoformat(v) == IF v.k = "datetime" THEN IsoDate(v.d) \o <<"T">> \o IsoTime(v.d)
                ELSE IsoDate(v.d)

\* The date part "YYYY-MM-DD" at the head of s: <<y, m, d>>, or <<>>
CheckDate(y, m, d) ==
    IF y >= 1 /\ m >= 1 /\ m <= 12 /\ d >= 1 /\ d <= DaysIn(y, m) THEN <<y, m, d>> ELSE <<>>

ParseDatePart(s) ==
    IF /\ Len(s) >= 10
       /\ AllDigits(SubSeq(s, 1, 4)) /\ s[5] = "-"
       /\ AllDigits(SubSeq(s, 6, 7)) /\ s[8] = "-"
       /\ AllDigits(SubSeq(s, 9, 10))
    THEN CheckDate(ParseNat(SubSeq(s, 1, 4)), ParseNat(SubSeq(s, 6, 7)),
                   ParseNat(SubSeq(s, 9, 10)))
    ELSE <<>>

\* The time part "HH", "HH:MM" or "HH:MM:SS": <<H, M, S>>, or <<>>
TwoDigits(t, a) == AllDigits(SubSeq(t, a, a + 1))

CheckTime(hms) ==
    IF hms # <<>> /\ hms[1] <= 23 /\ hms[2] <= 59 /\ hms[3] <= 59 THEN hms ELSE <<>>

ParseTimePart(t) ==
    CheckTime(IF Len(t) = 2 /\ TwoDigits(t, 1) THEN <<ParseNat(SubSeq(t, 1, 2)), 0, 0>>
              ELSE IF Len(t) = 5 /\ TwoDigits(t, 1) /\ t[3] = ":" /\ TwoDigits(t, 4)
                   THEN <<ParseNat(SubSeq(t, 1, 2)), ParseNat(SubSeq(t, 4, 5)), 0>>
              ELSE IF /\ Len(t) = 8 /\ TwoDigits(t, 1) /\ t[3] = ":" /\ TwoDigits(t, 4)
                      /\ t[6] = ":" /\ TwoDigits(t, 7)
                   THEN <<ParseNat(SubSeq(t, 1, 2)), ParseNat(SubSeq(t, 4, 5)),
                          ParseNat(SubSeq(t, 7, 8))>>
              ELSE <<>>)

\* datetime.fromisoformat(s) for "YYYY-MM-DD" and "YYYY-MM-DD<sep>HH[:MM[:SS]]"
\* (fractions and UTC offsets are not among the modelled inputs): the
\* datetime value, or Null for the ValueError.  A date-only string parses,
\* to midnight.
DateTimeOf(dp, tp) == IF dp = <<>> \/ tp = <<>> THEN Null ELSE DtV(dp \o tp)

datetime_fromisoformat(s) ==
    DateTimeOf(ParseDatePart(s),
               IF Len(s) = 10 THEN <<0, 0, 0>>
               ELSE IF Len(s) = 11 THEN <<>>
               ELSE ParseTimePart(SubSeq(s, 12, Len(s))))

\* date.fromisoformat(s): exactly "YYYY-MM-DD"; Null for the ValueError
DateOf(dp) == IF dp = <<>> THEN Null ELSE DateV(dp)

date_fromisoformat(s) == IF Len(s) = 10 THEN DateOf(ParseDatePart(s)) ELSE Null

\* str(h) of a cell value (unique_headers, line 110, handles None itself)
PyStr(v) ==
    CASE v.k = "str" -> v.s
      [] v.k = "null" -> <<"N", "o", "n", "e">>
      [] v.k = "num" -> Digits(v.n)
      [] v.k = "bool" -> IF v.n = 1 THEN <<"T", "r", "u", "e">>
                         ELSE <<"F", "a", "l", "s", "e">>
      [] v.k = "datetime" -> IsoDate(v.d) \o <<" ">> \o IsoTime(v.d)
      [] v.k = "date" -> IsoDate(v.d)
      [] OTHER -> v.s

(***************************************************************************)
(* excel2json.json_default / json.dump; json2excel.coerce_value            *)
(***************************************************************************)
\* json_default is called by json.dump only for values json cannot encode:
\* datetime and date go to isoformat(); the Decimal and str() branches are
\* not reached by the cell values modelled here.
json_default(v) ==
    IF v.k \in {"datetime", "date"} THEN StrV(isoformat(v)) ELSE StrV(PyStr(v))

\* json.dump(..., default=json_default) followed by json.load, on one value
JsonValue(v) == IF v.k \in {"null", "bool", "num", "str"} THEN v ELSE json_default(v)

\* The first of two parses that did not raise, else nothing
FirstParsedOrNone(first, second, v) == IF first # Null THEN first ELSE second

\* The first of two parses that did not raise, else the value itself
FirstParsed(first, second, v) ==
    IF first # Null THEN first ELSE IF second # Null THEN second ELSE v

\* coerce_value(v): a string with '-' at [4] and [7] is tried as a datetime
\* first and as a date only when that raises; every failure leaves v as is
coerce_value(v) ==
    IF v.k = "str"
    THEN IF Len(v.s) >= 10 /\ v.s[5] = "-" /\ v.s[8] = "-"
         THEN FirstParsed(datetime_fromisoformat(v.s), date_fromisoformat(v.s), v)
         ELSE v
    ELSE IF v.k \in {"num", "bool", "null", "datetime", "date"} THEN v
    ELSE StrV(v.s)

(***************************************************************************)
(* Log lines.  One record per line: level, the message's fixed text (msg)  *)
(* and the strings that fill its holes (src, tgt).  The audit line         *)
(* "Map: <src> -> <tgt>" keeps both locators.                              *)
(***************************************************************************)
LogLine(lvl, msg, src, tgt) == [lvl |-> lvl, msg |-> msg, src |-> src, tgt |-> tgt]

(***************************************************************************)
(* Python dict with string keys: a sequence of entries in insertion order, *)
(* keys unique                                                             *)
(***************************************************************************)
DictKeys(d) == {d[i].key : i \in DOMAIN d}

\* d[k] = v: replaces the value in place, or appends a new entry
DictSet(d, k, v) ==
    IF k \in DictKeys(d)
    THEN [i \in DOMAIN d |-> IF d[i].key = k THEN [key |-> k, val |-> v] ELSE d[i]]
    ELSE Append(d, [key |-> k, val |-> v])

\* d.get(k, default)
DictGet(d, k, default) ==
    IF k \in DictKeys(d) THEN d[CHOOSE i \in DOMAIN d : d[i].key = k].val ELSE default

(***************************************************************************)
(* The openpyxl worksheet, as the scripts use it:                          *)
(*   title, sheet_state, cells (existing cells <<row, col>> -> value),     *)
(*   mcells (the cells that are MergedCell objects: value None, read-only),*)
(*   merged (ws.merged_cells.ranges, each <<min_col, min_row, max_col,     *)
(*   max_row>> = m.bounds), tables (ws.tables: displayName, ref)           *)
(***************************************************************************)
NewSheet(title) ==
    [title |-> title, sheet_state |-> "visible", cells |-> <<>>, mcells |-> {},
     merged |-> <<>>, tables |-> <<>>]

\* ws.cell(row=r, column=c).value
CellValue(ws, r, c) == IF <<r, c>> \in DOMAIN ws.cells THEN ws.cells[<<r, c>>] ELSE Null

\* ws.max_row: 1 for a sheet without cells
MaxRow(ws) == IF DOMAIN ws.cells = {} THEN 1 ELSE SetMax({p[1] : p \in DOMAIN ws.cells})

\* ws.calculate_dimension()
DimensionOf(rs, cs) ==
    cell_addr(SetMin(rs), SetMin(cs)) \o <<":">> \o cell_addr(SetMax(rs), SetMax(cs))

calculate_dimension(ws) ==
    IF DOMAIN ws.cells = {} THEN <<"A", "1", ":", "A", "1">>
    ELSE DimensionOf({p[1] : p \in DOMAIN ws.cells}, {p[2] : p \in DOMAIN ws.cells})

\* Worksheet._clean_merge_range: every cell of the range but the first
\* becomes a MergedCell; the top-left cell exists afterwards
CleanMergeRange(ws, b) ==
    LET anchor == <<b[2], b[1]>>
        others == CellsOf(b) \ {anchor}
        kept == [p \in DOMAIN ws.cells \ others |-> ws.cells[p]]
    IN  [ws EXCEPT !.cells = [p \in others |-> Null] @@ kept @@ (anchor :> Null),
                   !.mcells = @ \cup others]

\* b is inside one of the registered ranges (MultiCellRange.__contains__)
InMerged(ws, b) ==
    \E i \in DOMAIN ws.merged :
        LET m == ws.merged[i]
        IN  m[1] <= b[1] /\ m[2] <= b[2] /\ b[3] <= m[3] /\ b[4] <= m[4]

\* A range string ws.merge_cells accepts: parsable, corners in order
OrderedBounds(b) == b # <<>> /\ b[1] <= b[3] /\ b[2] <= b[4]

ValidMergeRange(rng) == OrderedBounds(range_boundaries(rng))

\* ws.merge_cells(rng) for a valid rng: the range is registered unless an
\* existing range contains it, and its cells are cleaned either way
MergeBounds(ws, b) ==
    CleanMergeRange(IF InMerged(ws, b) THEN ws ELSE [ws EXCEPT !.merged = Append(@, b)], b)

MergeCells(ws, rng) == MergeBounds(ws, range_boundaries(rng))

\* ws.cell(row=r, column=c, value=v) raises on a MergedCell when v is not
\* None (MergedCell.value is read-only)
CellWriteRaises(ws, r, c, v) == <<r, c>> \in ws.mcells /\ v # Null

\* ws.cell(row=r, column=c, value=v): the cell exists afterwards; a value of
\* None is not assigned, so an existing value stays
CellWrite(ws, r, c, v) ==
    IF v = Null
    THEN [ws EXCEPT !.cells = @ @@ (<<r, c>> :> Null)]
    ELSE [ws EXCEPT !.cells = (<<r, c>> :> v) @@ @]

(***************************************************************************)
(* excel2json.py: merged cells                                             *)
(***************************************************************************)
RECURSIVE MergedInfoFrom(_, _)
MergedInfoFrom(ws, ms) ==
    IF ms = <<>> THEN <<>>
    ELSE LET m == Head(ms)
         IN  <<[range |-> RangeStr(m),
                anchor |-> cell_addr(m[2], m[1]),
                rows |-> <<m[2], m[4]>>,
                cols |-> <<m[1], m[3]>>,
                value |-> CellValue(ws, m[2], m[1])]>> \o MergedInfoFrom(ws, Tail(ms))

merged_ranges_info(ws) == MergedInfoFrom(ws, ws.merged)

\* A loop that keeps the entry a cell already has: the first range wins
RECURSIVE LookupFromFirstWins(_, _)
LookupFromFirstWins(ms, lookup) ==
    IF ms = <<>> THEN lookup
    ELSE LookupFromFirstWins(Tail(ms),
                             lookup @@ [p \in CellsOf(Head(ms)) |-> <<Head(ms)[2], Head(ms)[1]>>])

\* The loop of build_merged_lookup: each range in turn overwrites the
\* entries of the cells it covers
RECURSIVE LookupFrom(_, _)
LookupFrom(ms, lookup) ==
    IF ms = <<>> THEN lookup
    ELSE LET m == Head(ms)
         IN  LookupFrom(Tail(ms), [p \in CellsOf(m) |-> <<m[2], m[1]>>] @@ lookup)

build_merged_lookup(ws) == LookupFrom(ws.merged, <<>>)

\* A resolution that ignores the lookup and reads the cell itself
get_value_with_mergeOwnCell(ws, r, c, merge_lu) == CellValue(ws, r, c)

get_value_with_merge(ws, r, c, merge_lu) ==
    IF <<r, c>> \in DOMAIN merge_lu
    THEN CellValue(ws, merge_lu[<<r, c>>][1], merge_lu[<<r, c>>][2])
    ELSE CellValue(ws, r, c)

(***************************************************************************)
(* excel2json.py: unique_headers                                           *)
(***************************************************************************)
\* The loop of unique_headers: seen maps a base name to its count, out is
\* the list so far, warn the warnings logged so far
RECURSIVE UniqueFrom(_, _, _, _)
\* One pass of the loop for a header whose base name was seen before
Renamed(hs, seen, out, warn, base, cnt, new_h) ==
    UniqueFrom(Tail(hs), (base :> cnt) @@ seen, Append(out, new_h),
               Append(warn, LogLine("WARNING", "Duplizierter Header", <<base>>, <<new_h>>)))

\* One pass of the loop for the base name of the next header
UniqueStep(hs, seen, out, warn, base) ==
    IF base \notin DOMAIN seen
    THEN UniqueFrom(Tail(hs), (base :> 1) @@ seen, Append(out, base), warn)
    ELSE Renamed(hs, seen, out, warn, base, seen[base] + 1,
                 base \o <<"_">> \o Digits(seen[base] + 1))

UniqueFrom(hs, seen, out, warn) ==
    IF hs = <<>> THEN [out |-> out, log |-> warn]
    ELSE UniqueStep(hs, seen, out, warn, IF Head(hs) = Null THEN <<>> ELSE PyStr(Head(hs)))

unique_headers(headers) == UniqueFrom(headers, <<>>, <<>>, <<>>)

(***************************************************************************)
(* excel2json.py: extract_excel_table, extract_used_range                  *)
(***************************************************************************)
\* range(a, b + 1) as a sequence
IntSeq(a, b) == IF b < a THEN <<>> ELSE [i \in 1..(b - a + 1) |-> a + i - 1]

\* "Map: {ws.title}!{cell_addr(r, c)} -> tables['{name}'].rows[{i}]['{header}']"
TableMapLine(ws, r, c, name, i, header) ==
    LogLine("INFO", "Map", <<ws.title, cell_addr(r, c)>>, <<name, Digits(i), header>>)

\* The inner loop over the columns of one data row: the row dict and its
\* audit lines
RECURSIVE RowFrom(_, _, _, _, _, _, _, _)
RowFrom(ws, t, bnd, headers, lu, r, k, acc) ==
    IF k > Len(headers) THEN acc
    ELSE RowFrom(ws, t, bnd, headers, lu, r, k + 1,
                 [row |-> DictSet(acc.row, headers[k],
                                  get_value_with_merge(ws, r, bnd[1] + k - 1, lu)),
                  log |-> Append(acc.log,
                                 TableMapLine(ws, r, bnd[1] + k - 1, t.displayName,
                                              r - bnd[2] - 1, headers[k]))])

\* A row put before the rows collected so far
AddRowFront(acc, one) == [rows |-> <<one.row>> \o acc.rows, log |-> acc.log \o one.log]

\* rows.append(row_obj)
AddRow(acc, one) == [rows |-> Append(acc.rows, one.row), log |-> acc.log \o one.log]

\* The outer loop over the data rows min_row+1 .. max_row
RECURSIVE RowsFrom(_, _, _, _, _, _, _)
RowsFrom(ws, t, bnd, headers, lu, r, acc) ==
    IF r > bnd[4] THEN acc
    ELSE RowsFrom(ws, t, bnd, headers, lu, r + 1,
                  AddRow(acc, RowFrom(ws, t, bnd, headers, lu, r, 1,
                                      [row |-> <<>>, log |-> <<>>])))

\* Non-strict rectangle intersection of a merged range m and the table bounds
\* A test that lets a rectangle ending on the table's first or last row or
\* column count as lying beside it
TouchesInside(m, bnd) ==
    ~(m[3] <= bnd[1] \/ m[1] >= bnd[3] \/ m[4] <= bnd[2] \/ m[2] >= bnd[4])

\* The rectangle test of extract_excel_table: m = m.bounds, bnd the table's
Touches(m, bnd) ==
    ~(m[3] < bnd[1] \/ m[1] > bnd[3] \/ m[4] < bnd[2] \/ m[2] > bnd[4])

RECURSIVE MergesTouching(_, _)
MergesTouching(ms, bnd) ==
    IF ms = <<>> THEN <<>>
    ELSE (IF Touches(Head(ms), bnd)
          THEN <<[range |-> RangeStr(Head(ms)), anchor |-> cell_addr(Head(ms)[2], Head(ms)[1])]>>
          ELSE <<>>) \o MergesTouching(Tail(ms), bnd)

\* The dict extract_excel_table returns, from the unique headers uh and the
\* rows body
TableObject(ws, t, bnd, uh, body) ==
    [ok |-> TRUE,
     obj |-> <<[name |-> t.displayName,
                ref |-> t.ref,
                headers |-> uh.out,
                row_count |-> Len(body.rows),
                rows |-> body.rows,
                merged_cells_in_table |-> MergesTouching(ws.merged, bnd)]>>,
     log |-> uh.log \o body.log]

TableRows(ws, t, bnd, lu, uh) ==
    TableObject(ws, t, bnd, uh,
                RowsFrom(ws, t, bnd, uh.out, lu, bnd[2] + 1, [rows |-> <<>>, log |-> <<>>]))

TableWithin(ws, t, bnd, lu) ==
    IF bnd = <<>> THEN [ok |-> FALSE, obj |-> <<>>, log |-> <<>>]
    ELSE TableRows(ws, t, bnd, lu,
                   unique_headers([k \in DOMAIN IntSeq(bnd[1], bnd[3]) |->
                                     get_value_with_merge(ws, bnd[2], bnd[1] + k - 1, lu)]))

\* extract_excel_table(ws, table_obj, logger): ok = FALSE when
\* range_boundaries(ref) raises; log holds the lines written until then
extract_excel_table(ws, t) ==
    TableWithin(ws, t, range_boundaries(t.ref), build_merged_lookup(ws))

\* "Map: {ws.title}!{cell_addr(r, c)} -> used_range[{r - min_row}][{c - min_col}]"
GridMapLine(ws, r, c, bnd) ==
    LogLine("INFO", "Map", <<ws.title, cell_addr(r, c)>>,
            <<Digits(r - bnd[2]), Digits(c - bnd[1])>>)

UsedRangeOf(ws, dim, bnd, lu, rs, cs) ==
    [obj |-> [dimensions |-> dim,
              row_count |-> Len(rs),
              col_count |-> bnd[3] - bnd[1] + 1,
              grid |-> [i \in DOMAIN rs |->
                          [j \in DOMAIN cs |-> get_value_with_merge(ws, rs[i], cs[j], lu)]],
              merged_cells |-> merged_ranges_info(ws)],
     log |-> Concat([i \in DOMAIN rs |->
                       [j \in DOMAIN cs |-> GridMapLine(ws, rs[i], cs[j], bnd)]])]

UsedRangeWithin(ws, dim, bnd) ==
    UsedRangeOf(ws, dim, bnd, build_merged_lookup(ws),
                IntSeq(bnd[2], bnd[4]), IntSeq(bnd[1], bnd[3]))

UsedRangeAt(ws, dim) == UsedRangeWithin(ws, dim, range_boundaries(dim))

\* extract_used_range(ws, logger); calculate_dimension always yields a
\* parsable range with ordered corners
extract_used_range(ws) == UsedRangeAt(ws, calculate_dimension(ws))

(***************************************************************************)
(* excel2json.py: process_workbook, the body of the loop over the sheets   *)
(***************************************************************************)
\* tables.append(extract_excel_table(...)), or the exception
AddTable(acc, one) ==
    [ok |-> one.ok, tables |-> acc.tables \o one.obj, log |-> acc.log \o one.log]

\* The loop over the tables of a sheet: stops at the first table whose
\* extraction raises
RECURSIVE TablesFrom(_, _, _)
TablesFrom(ws, ts, acc) ==
    IF ts = <<>> \/ ~acc.ok THEN acc
    ELSE TablesFrom(ws, Tail(ts), AddTable(acc, extract_excel_table(ws, Head(ts))))

\* The lines logged before the branch on ws.tables
SheetHead(ws, merges) ==
    <<LogLine("INFO", "Sheet", <<ws.title>>, <<>>)>>
    \o (IF merges # <<>>
        THEN <<LogLine("INFO", "Merged Ranges", [i \in DOMAIN merges |-> merges[i].range], <<>>)>>
        ELSE <<>>)

\* The branch "if ws.tables": ex is the outcome of the loop over the tables
SheetWithTables(file, ws, merges, ex) ==
    IF ex.ok
    THEN [ok |-> TRUE,
          obj |-> <<[header |-> file \o <<"-">> \o ws.title,
                     sheet_state |-> ws.sheet_state,
                     merged_cells |-> merges,
                     excel_tables |-> Some(ex.tables), used_range |-> Absent]>>,
          log |-> SheetHead(ws, merges)
                  \o <<LogLine("INFO", "Gefundene Excel-Tabellen",
                               [i \in DOMAIN ws.tables |-> ws.tables[i].displayName], <<>>)>>
                  \o ex.log]
    ELSE [ok |-> FALSE, obj |-> <<>>,
          log |-> SheetHead(ws, merges)
                  \o <<LogLine("INFO", "Gefundene Excel-Tabellen",
                               [i \in DOMAIN ws.tables |-> ws.tables[i].displayName], <<>>)>>
                  \o ex.log
                  \o <<LogLine("ERROR", "Fehler im Sheet", <<ws.title>>, <<>>)>>]

\* A fallback branch that also stores an empty list of tables
SheetWithGridAndTables(file, ws, merges, ur) ==
    [ok |-> TRUE,
     obj |-> <<[header |-> file \o <<"-">> \o ws.title,
                sheet_state |-> ws.sheet_state,
                merged_cells |-> merges,
                excel_tables |-> Some(<<>>), used_range |-> Some(ur.obj)]>>,
     log |-> SheetHead(ws, merges) \o ur.log]

\* The branch "else": ur is the outcome of extract_used_range
SheetWithGrid(file, ws, merges, ur) ==
    [ok |-> TRUE,
     obj |-> <<[header |-> file \o <<"-">> \o ws.title,
                sheet_state |-> ws.sheet_state,
                merged_cells |-> merges,
                excel_tables |-> Absent, used_range |-> Some(ur.obj)]>>,
     log |-> SheetHead(ws, merges)
             \o <<LogLine("WARNING", "Keine Excel-Tabellen gefunden", <<>>, <<>>)>>
             \o ur.log]

SheetWithMerges(file, ws, merges) ==
    IF ws.tables # <<>>
    THEN SheetWithTables(file, ws, merges,
                         TablesFrom(ws, ws.tables, [ok |-> TRUE, tables |-> <<>>, log |-> <<>>]))
    ELSE SheetWithGrid(file, ws, merges, extract_used_range(ws))

\* One pass of "for ws in wb.worksheets": the sheet object stored under
\* result["sheets"][ws.title], or nothing when the try block raised
ProcessSheet(file, ws) == SheetWithMerges(file, ws, merged_ranges_info(ws))

(***************************************************************************)
(* json.dump(result, default=json_default) and json.load: every value that *)
(* json cannot encode goes through json_default                            *)
(***************************************************************************)
JsonRow(row) == [i \in DOMAIN row |-> [key |-> row[i].key, val |-> JsonValue(row[i].val)]]

JsonMerges(ms) == [i \in DOMAIN ms |-> [ms[i] EXCEPT !.value = JsonValue(@)]]

JsonTable(t) == [t EXCEPT !.rows = [i \in DOMAIN t.rows |-> JsonRow(t.rows[i])]]

JsonUsedRange(u) ==
    [u EXCEPT !.grid = [i \in DOMAIN u.grid |->
                          [j \in DOMAIN u.grid[i] |-> JsonValue(u.grid[i][j])]],
              !.merged_cells = JsonMerges(@)]

JsonSheet(o) ==
    [o EXCEPT !.merged_cells = JsonMerges(@),
              !.excel_tables = IF @ = Absent THEN Absent
                               ELSE Some([i \in DOMAIN @[1] |-> JsonTable(@[1][i])]),
              !.used_range = IF @ = Absent THEN Absent ELSE Some(JsonUsedRange(@[1]))]

JsonDump(result) ==
    [result EXCEPT !.sheets = [i \in DOMAIN @ |-> [name |-> @[i].name,
                                                  obj |-> JsonSheet(@[i].obj)]]]

(***************************************************************************)
(* json2excel.py: ensure_unique_table_name, write_merged_ranges,           *)
(* write_used_range                                                        *)
(***************************************************************************)
\* The while loop of ensure_unique_table_name, entered with name = base_i
RECURSIVE NameFrom(_, _, _)
NameFrom(existing, base, i) ==
    IF base \o <<"_">> \o Digits(i) \in existing THEN NameFrom(existing, base, i + 1)
    ELSE base \o <<"_">> \o Digits(i)

UniqueName(existing, base) == IF base \in existing THEN NameFrom(existing, base, 2) ELSE base

\* ensure_unique_table_name(existing, desired): the returned name; the
\* caller's set gains it
ensure_unique_table_name(existing, desired) ==
    UniqueName(existing, IF desired # <<>> THEN desired ELSE <<"T", "a", "b", "l", "e">>)

\* The loop of write_merged_ranges (and of lines 175-182 of write_tables):
\* an entry without a range is skipped, a range merge_cells rejects is
\* logged as a warning and skipped
RECURSIVE MergesFrom(_, _)
\* A loop that ends at the first range merge_cells rejects
MergeStepUntilFailure(ms, acc, r) ==
    IF r = <<>> THEN MergesFrom(Tail(ms), acc)
    ELSE IF ValidMergeRange(r)
    THEN MergesFrom(Tail(ms),
                    [ws |-> MergeCells(acc.ws, r),
                     log |-> Append(acc.log, LogLine("INFO", "Merged", <<acc.ws.title, r>>, <<>>))])
    ELSE [ws |-> acc.ws,
          log |-> Append(acc.log, LogLine("WARNING", "Merge uebersprungen",
                                          <<acc.ws.title, r>>, <<>>))]

MergeStep(ms, acc, r) ==
    IF r = <<>> THEN MergesFrom(Tail(ms), acc)
    ELSE IF ValidMergeRange(r)
    THEN MergesFrom(Tail(ms),
                    [ws |-> MergeCells(acc.ws, r),
                     log |-> Append(acc.log, LogLine("INFO", "Merged", <<acc.ws.title, r>>, <<>>))])
    ELSE MergesFrom(Tail(ms),
                    [ws |-> acc.ws,
                     log |-> Append(acc.log, LogLine("WARNING", "Merge uebersprungen",
                                                     <<acc.ws.title, r>>, <<>>))])

MergesFrom(ms, acc) == IF ms = <<>> THEN acc ELSE MergeStep(ms, acc, Head(ms).range)

write_merged_ranges(ws, merges) == MergesFrom(merges, [ws |-> ws, log |-> <<>>])

\* A run of ws.cell(row, column, value) calls, each followed by its audit
\* line; stops at the first call that raises
RECURSIVE WriteCells(_, _)
WriteStep(writes, acc, w) ==
    IF CellWriteRaises(acc.ws, w.r, w.c, w.v)
    THEN [acc EXCEPT !.ok = FALSE]
    ELSE WriteCells(Tail(writes),
                    [ok |-> TRUE, ws |-> CellWrite(acc.ws, w.r, w.c, w.v),
                     log |-> Append(acc.log, w.line)])

WriteCells(writes, acc) ==
    IF writes = <<>> \/ ~acc.ok THEN acc ELSE WriteStep(writes, acc, Head(writes))

\* The writes of write_used_range: enumerate(grid, start=1) and
\* enumerate(row_vals, start=1) give the target row and column
GridWrites(title, used_range) ==
    Concat([i \in DOMAIN used_range.grid |->
              [j \in DOMAIN used_range.grid[i] |->
                 [r |-> i, c |-> j, v |-> coerce_value(used_range.grid[i][j]),
                  line |-> LogLine("INFO", "Map",
                                   <<<<"g", "r", "i", "d">>, Digits(i - 1), Digits(j - 1)>>,
                                   <<title, cell_addr(i, j)>>)]]])

\* The outcome of the cell writes wr followed by that of the merges mg
WithMerges(wr, mg) == [ok |-> TRUE, ws |-> mg.ws, log |-> wr.log \o mg.log]

GridMerges(wr, used_range) ==
    IF ~wr.ok THEN wr ELSE WithMerges(wr, write_merged_ranges(wr.ws, used_range.merged_cells))

\* write_used_range(ws, used_range, logger)
write_used_range(ws, used_range) ==
    GridMerges(WriteCells(GridWrites(ws.title, used_range),
                          [ok |-> TRUE, ws |-> ws, log |-> <<>>]),
               used_range)

(***************************************************************************)
(* json2excel.py: write_tables                                             *)
(***************************************************************************)
\* max((len(r.keys()) for r in rows), default=0)
MaxRowKeys(rows) == IF rows = <<>> THEN 0 ELSE SetMax({Len(rows[i]) : i \in DOMAIN rows})

\* A column count that ignores the keys of the rows
n_colsHeadersOnly(headers, rows) == Len(headers)

\* n_cols = max(len(headers), max(len(r.keys()) ...))
n_cols(headers, rows) == Max2(Len(headers), MaxRowKeys(rows))

\* headers[c] if c < len(headers) else f"Col_{c+1}", for the 1-based column k
ColumnKey(headers, k) ==
    IF k <= Len(headers) THEN headers[k] ELSE <<"C", "o", "l", "_">> \o Digits(k)

\* The header writes of a table of n columns
HeaderWrites(title, t, t_idx, start_row, start_col, n) ==
    [k \in 1..n |->
       [r |-> start_row, c |-> start_col + k - 1,
        v |-> StrV(ColumnKey(t.headers, k)),
        line |-> LogLine("INFO", "Map",
                         <<<<"h", "e", "a", "d", "e", "r", "s">>, Digits(t_idx), Digits(k - 1)>>,
                         <<title, cell_addr(start_row, start_col + k - 1)>>)]]

\* The data writes, row by row
DataWrites(title, t, t_idx, start_row, start_col, n) ==
    Concat([r_i \in DOMAIN t.rows |->
              [k \in 1..n |->
                 [r |-> start_row + r_i, c |-> start_col + k - 1,
                  v |-> coerce_value(DictGet(t.rows[r_i], ColumnKey(t.headers, k), Null)),
                  line |-> LogLine("INFO", "Map",
                                   <<<<"r", "o", "w", "s">>, Digits(t_idx), Digits(r_i - 1),
                                     ColumnKey(t.headers, k)>>,
                                   <<title, cell_addr(start_row + r_i, start_col + k - 1)>>)]]])

TableWritesOf(title, t, t_idx, start_row, start_col, n) ==
    HeaderWrites(title, t, t_idx, start_row, start_col, n)
    \o DataWrites(title, t, t_idx, start_row, start_col, n)

\* The header writes, then the data writes
TableWrites(title, t, t_idx, start_row, start_col) ==
    TableWritesOf(title, t, t_idx, start_row, start_col, n_cols(t.headers, t.rows))

\* ws.add_table(Table(displayName, ref)) inside its try block: a display
\* name in use in the workbook is rejected, and the rejection is logged
add_table(ws, others, display_name, table_ref) ==
    IF display_name \in {ws.tables[i].displayName : i \in DOMAIN ws.tables} \cup others
    THEN [ws |-> ws,
          log |-> <<LogLine("WARNING", "Table konnte nicht angelegt werden",
                            <<display_name, table_ref>>, <<>>)>>]
    ELSE [ws |-> [ws EXCEPT !.tables = Append(@, [displayName |-> display_name,
                                                   ref |-> table_ref])],
          log |-> <<LogLine("INFO", "Table angelegt", <<display_name, table_ref>>, <<>>)>>]

\* The end of a pass that did not raise
TableDone(st, wr, display_name, added, mg) ==
    [ok |-> TRUE, ws |-> mg.ws, log |-> wr.log \o added.log \o mg.log,
     existing |-> st.existing \cup {display_name}, others |-> st.others]

\* Lines 172-182: the merges listed with the table
TableMerged(st, t, wr, display_name, added) ==
    TableDone(st, wr, display_name, added,
              MergesFrom(t.merged_cells_in_table, [ws |-> added.ws, log |-> <<>>]))

\* Lines 161-170
TableNamed(st, t, wr, table_ref, display_name) ==
    TableMerged(st, t, wr, display_name, add_table(wr.ws, st.others, display_name, table_ref))

\* Lines 152-159, after the cell writes wr; top_left and bottom_right are
\* the corner addresses of the table
TableWritten(st, t, t_idx, wr, top_left, bottom_right) ==
    IF ~wr.ok \/ bottom_right = <<>>
    THEN [st EXCEPT !.ok = FALSE, !.ws = wr.ws, !.log = wr.log]
    ELSE TableNamed(st, t, wr, top_left \o <<":">> \o bottom_right,
                    ensure_unique_table_name(st.existing,
                                             IF t.name # <<>> THEN t.name
                                             ELSE <<"T", "a", "b", "l", "e">> \o Digits(t_idx + 1)))

\* Lines 135-155 for a table placed at start_row, start_col
WriteTableAt(st, t, t_idx, start_row, start_col) ==
    TableWritten(st, t, t_idx,
                 WriteCells(TableWrites(st.ws.title, t, t_idx, start_row, start_col),
                            [ok |-> TRUE, ws |-> st.ws, log |-> st.log]),
                 cell_addr(start_row, start_col),
                 cell_addr(start_row + Len(t.rows),
                           start_col + n_cols(t.headers, t.rows) - 1))

\* Lines 131-133: bnd = range_boundaries(ref), <<>> when it raises
WriteTableIn(st, t, t_idx, bnd) ==
    IF bnd = <<>> THEN [st EXCEPT !.ok = FALSE]
    ELSE WriteTableAt(st, t, t_idx, bnd[2], bnd[1])

\* One pass of "for t_idx, t in enumerate(tables_json)" (t_idx 0-based).
\* st: ok, ws, log, existing (existing_names), others (the display names
\* of the tables on the sheets built before this one).  ok = FALSE when
\* the pass raises: range_boundaries(ref), a write to a MergedCell, or
\* cell_addr for a column below 1.
WriteTable(st, t, t_idx) ==
    IF t.ref = <<>>
    THEN WriteTableAt(st, t, t_idx, IF MaxRow(st.ws) > 1 THEN MaxRow(st.ws) + 2 ELSE 1, 1)
    ELSE WriteTableIn(st, t, t_idx, range_boundaries(t.ref))

RECURSIVE TablesWrite(_, _, _)
TablesWrite(ts, t_idx, st) ==
    IF ts = <<>> \/ ~st.ok THEN st
    ELSE TablesWrite(Tail(ts), t_idx + 1, WriteTable(st, Head(ts), t_idx))

\* write_tables(ws, tables_json, logger); existing_names starts from the
\* tables of ws, a sheet just created
write_tables(ws, tables_json, others) ==
    TablesWrite(tables_json, 0,
                [ok |-> TRUE, ws |-> ws, log |-> <<>>,
                 existing |-> {ws.tables[i].displayName : i \in DOMAIN ws.tables},
                 others |-> others])

(***************************************************************************)
(* json2excel.py: reconstruct_workbook, the body of the loop over the      *)
(* sheets                                                                  *)
(***************************************************************************)
TitleLimit == 31

\* wb.create_sheet(title): openpyxl appends a number to a title in use
RECURSIVE FreeTitle(_, _, _)
FreeTitle(used, title, i) ==
    IF title \o Digits(i) \in used THEN FreeTitle(used, title, i + 1) ELSE title \o Digits(i)

FreeOr(used, want) == IF want \in used THEN FreeTitle(used, want, 1) ELSE want

\* title=sheet_name[:31] if sheet_name else "Sheet".  The sheet names of
\* the modelled documents hold no character Excel forbids, so the except
\* branch of lines 203-206 is not entered.
SheetTitle(wbk, sheet_name) ==
    FreeOr({wbk[i].title : i \in DOMAIN wbk},
           IF sheet_name # <<>> THEN Slice(sheet_name, 1, TitleLimit)
           ELSE <<"S", "h", "e", "e", "t">>)

\* state = str(sheet_obj.get("sheet_state") or "visible"), reset to
\* "visible" when it is not one of the three states
SheetState(obj) ==
    IF obj.sheet_state \in {"visible", "hidden", "veryHidden"} THEN obj.sheet_state
    ELSE "visible"

TableNames(wbk) == UNION {{wbk[i].tables[j].displayName : j \in DOMAIN wbk[i].tables} :
                          i \in DOMAIN wbk}

\* write_tables returns nothing; its effect is the sheet and the log
TablesResult(w) == [ok |-> w.ok, ws |-> w.ws, log |-> w.log]

\* Lines 223-229: tables, else the used range, else an empty sheet
SheetBody(wbk, obj, ws, tables) ==
    IF tables # <<>> THEN TablesResult(write_tables(ws, tables, TableNames(wbk)))
    ELSE IF obj.used_range # Absent THEN write_used_range(ws, obj.used_range[1])
    ELSE [ok |-> TRUE, ws |-> ws,
          log |-> <<LogLine("WARNING", "Leeres Blatt erstellt", <<ws.title>>, <<>>)>>]

\* Line 232: the merges of the sheet, after the body
SheetMerges(obj, body) ==
    IF ~body.ok THEN body
    ELSE WithMerges(body, write_merged_ranges(body.ws, obj.merged_cells))

\* One pass of "for sheet_name, sheet_obj in sheets.items()": the new
\* sheet, or ok = FALSE when write_tables or write_used_range raised
ReconstructSheet(wbk, sheet_name, obj) ==
    SheetMerges(obj,
                SheetBody(wbk, obj,
                          [NewSheet(SheetTitle(wbk, sheet_name)) EXCEPT
                             !.sheet_state = SheetState(obj)],
                          IF obj.excel_tables = Absent THEN <<>> ELSE obj.excel_tables[1]))

(***************************************************************************)
(* Files.  A workbook file: readable, active (0-based index of the active  *)
(* sheet) and sheets (title, sheet_state, cells, merged, tables).  A JSON  *)
(* file: readable, file, sheets (name -> sheet object, in order).          *)
(***************************************************************************)
\* wb.save(out_xlsx): a cell whose value is None is not written
SaveSheet(ws) ==
    [title |-> ws.title, sheet_state |-> ws.sheet_state,
     cells |-> [p \in {q \in DOMAIN ws.cells : ws.cells[q] # Null} |-> ws.cells[p]],
     merged |-> ws.merged, tables |-> ws.tables]

SaveWorkbook(wbk, active) ==
    [readable |-> TRUE, active |-> active, sheets |-> [i \in DOMAIN wbk |-> SaveSheet(wbk[i])]]

\* A date cell is stored as a day number and read back as a datetime
LoadValue(v) == IF v.k = "date" THEN DtV(v.d \o <<0, 0, 0>>) ELSE v

RECURSIVE BindMerged(_, _)
BindMerged(ws, ms) ==
    IF ms = <<>> THEN ws
    ELSE BindMerged(CleanMergeRange([ws EXCEPT !.merged = Append(@, Head(ms))], Head(ms)),
                    Tail(ms))

\* load_workbook(filename=xl_path, data_only=True, ...), one sheet
LoadSheet(fs) ==
    BindMerged([title |-> fs.title, sheet_state |-> fs.sheet_state,
                cells |-> [p \in DOMAIN fs.cells |-> LoadValue(fs.cells[p])],
                mcells |-> {}, merged |-> <<>>, tables |-> fs.tables],
               fs.merged)

LoadWorkbook(f) == [i \in DOMAIN f.sheets |-> LoadSheet(f.sheets[i])]

\* xl_path.name
FileName == <<"W", ".", "x", "l", "s", "x">>

\* result["sheets"][ws.title] = sheet_obj
SheetsSet(sheets, name, obj) ==
    IF \E i \in DOMAIN sheets : sheets[i].name = name
    THEN [i \in DOMAIN sheets |-> IF sheets[i].name = name THEN [name |-> name, obj |-> obj]
                                  ELSE sheets[i]]
    ELSE Append(sheets, [name |-> name, obj |-> obj])

(***************************************************************************)
(* Bounds of the modelled inputs                                           *)
(***************************************************************************)
\* Most columns of a table whose header row is drawn from HeaderNames
MaxCols == 4

\* Most merged ranges declared on a sheet of a workbook file
MaxMerges == 2

\* Most headers and most rows of a table of a hand-written JSON document
MaxJsonHeaders == 2

MaxJsonRows == 2

\* Most merged ranges listed on a sheet of a hand-written JSON document
MaxJsonMerges == 2

\* Most script runs on the directory
MaxRuns == 5

SeqsUpTo(S, n) == UNION {[1..k -> S] : k \in 0..n}

(***************************************************************************)
(* Workbook files the forward script may find                              *)
(***************************************************************************)
nA == <<"A">>

nA2 == <<"A", "_", "2">>

nA22 == <<"A", "_", "2", "_", "2">>

nB == <<"B">>

nX == <<"X">>

nT == <<"T">>

nT2 == <<"T", "_", "2">>

nU == <<"U">>

sS1 == <<"S", "1">>

sS2 == <<"S", "2">>

BadRef == <<"A", "1", ":", "?">>

HeaderNames == {nA, nA2, nA22}

RefOf(c1, r1, c2, r2) == cell_addr(r1, c1) \o <<":">> \o cell_addr(r2, c2)

FileSheet(title, state, cells, merged, tables) ==
    [title |-> title, sheet_state |-> state, cells |-> cells, merged |-> merged,
     tables |-> tables]

Book(sheets) == [readable |-> TRUE, active |-> 0, sheets |-> sheets]

\* One table T at A1 with the header row h and one data row 1, 2, ...
HeaderBook(h) ==
    Book(<<FileSheet(sS1, "visible",
                     [p \in {1, 2} \X (1..Len(h)) |->
                        IF p[1] = 1 THEN StrV(h[p[2]]) ELSE NumV(p[2])],
                     <<>>,
                     <<[displayName |-> nT, ref |-> RefOf(1, 1, Len(h), 2)]>>)>>)

HeaderBooks == {HeaderBook(h) : h \in SeqsUpTo(HeaderNames, MaxCols) \ {<<>>}}

\* The rectangles inside the 2 x 2 block whose top-left cell is (o, o)
Rects(o) == {b \in (o..o + 1) \X (o..o + 1) \X (o..o + 1) \X (o..o + 1) :
               b[1] <= b[3] /\ b[2] <= b[4]}

\* A 2 x 2 block of distinct numbers at (o, o) with the merged ranges ms
\* declared in that order; with a table over the block, or none
MergeBook(o, ms, withTable) ==
    Book(<<FileSheet(sS1, "visible",
                     [p \in (o..o + 1) \X (o..o + 1) |-> NumV(10 * p[1] + p[2])],
                     ms,
                     IF withTable
                     THEN <<[displayName |-> nT, ref |-> RefOf(o, o, o + 1, o + 1)]>>
                     ELSE <<>>)>>)

MergeBooks == {MergeBook(x[1], x[2], x[3]) :
                 x \in UNION {{o} \X SeqsUpTo(Rects(o), MaxMerges) \X BOOLEAN : o \in {1, 2}}}

sDate == <<"2", "0", "2", "4", "-", "0", "3", "-", "0", "1">>

sDateTime == sDate \o <<"T", "1", "0", ":", "3", "0", ":", "0", "0">>

sBadMonth == <<"2", "0", "2", "4", "-", "1", "3", "-", "0", "1">>

sText == <<"a", "b", "c">>

SpecialValues ==
    {StrV(sDate), StrV(sDateTime), StrV(sBadMonth), StrV(sText), Null, NumV(7), BoolV(TRUE),
     DtV(<<2024, 3, 1, 0, 0, 0>>), DtV(<<2024, 3, 1, 10, 30, 0>>)}

\* One value v: as the data cell of a one-column table, or alone on the sheet
ValueBook(v, withTable) ==
    IF withTable
    THEN Book(<<FileSheet(sS1, "visible", (<<1, 1>> :> StrV(nA)) @@ (<<2, 1>> :> v), <<>>,
                          <<[displayName |-> nT, ref |-> RefOf(1, 1, 1, 2)]>>)>>)
    ELSE Book(<<FileSheet(sS1, "visible", (<<1, 1>> :> v), <<>>, <<>>)>>)

ValueBooks == {ValueBook(x[1], x[2]) : x \in SpecialValues \X BOOLEAN}

\* Two sheets: S1 with the tables T (A1:A2) and U (C1:C2), either ref
\* possibly unparsable; S2 with a table or none
StructureBook(ref1, ref2, state2, table2) ==
    Book(<<FileSheet(sS1, "visible",
                     [p \in {1, 2} \X {1, 3} |-> IF p[1] = 1 THEN StrV(nA) ELSE NumV(p[2])],
                     <<>>,
                     <<[displayName |-> nT, ref |-> ref1], [displayName |-> nU, ref |-> ref2]>>),
           FileSheet(sS2, state2,
                     (<<1, 1>> :> StrV(nB)) @@ (<<2, 1>> :> NumV(5)),
                     <<>>,
                     IF table2 THEN <<[displayName |-> nX, ref |-> RefOf(1, 1, 1, 2)]>>
                     ELSE <<>>)>>)

StructureBooks ==
    {StructureBook(x[1], x[2], x[3], x[4]) :
       x \in {RefOf(1, 1, 1, 2), BadRef} \X {RefOf(3, 1, 3, 2), BadRef}
             \X {"visible", "hidden"} \X BOOLEAN}

\* Merged ranges around a table at B2:C3: outside it at a corner, meeting
\* it in one corner cell, left of it, right of it, below it, and across
\* its lower right corner
AroundRects ==
    {<<1, 1, 1, 1>>, <<1, 1, 2, 2>>, <<1, 2, 1, 3>>, <<4, 1, 4, 4>>, <<2, 4, 3, 4>>,
     <<3, 3, 4, 4>>}

\* A table T at B2:C3 on a sheet with the merged ranges ms around it
AroundBook(ms) ==
    Book(<<FileSheet(sS1, "visible",
                     [p \in (1..4) \X (1..4) |->
                        IF p[1] = 2 /\ p[2] \in {2, 3} THEN StrV(IF p[2] = 2 THEN nA ELSE nB)
                        ELSE NumV(10 * p[1] + p[2])],
                     ms,
                     <<[displayName |-> nT, ref |-> RefOf(2, 2, 3, 3)]>>)>>)

AroundBooks == {AroundBook(ms) : ms \in SeqsUpTo(AroundRects, MaxMerges)}

\* A file load_workbook cannot read
CorruptBook == [readable |-> FALSE, active |-> 0, sheets |-> <<>>]

Workbooks ==
    HeaderBooks \cup MergeBooks \cup ValueBooks \cup StructureBooks \cup AroundBooks
    \cup {CorruptBook}

(***************************************************************************)
(* JSON files the reverse script may find without a forward run before     *)
(* (written by hand or by another tool)                                    *)
(***************************************************************************)
JTable(name, ref, headers, rows, merges) ==
    [name |-> name, ref |-> ref, headers |-> headers, row_count |-> Len(rows), rows |-> rows,
     merged_cells_in_table |-> merges]

JSheet(title, state, merges, tables, used_range) ==
    [name |-> title,
     obj |-> [header |-> FileName \o <<"-">> \o title, sheet_state |-> state,
              merged_cells |-> merges, excel_tables |-> tables, used_range |-> used_range]]

JDoc(sheets) == [readable |-> TRUE, file |-> FileName, sheets |-> sheets]

JMerge(rng) == [range |-> rng, anchor |-> <<>>, rows |-> <<>>, cols |-> <<>>, value |-> Null]

JGrid(dim, grid, merges) ==
    [dimensions |-> dim, row_count |-> Len(grid),
     col_count |-> IF grid = <<>> THEN 0 ELSE Len(grid[1]), grid |-> grid,
     merged_cells |-> merges]

Entry(k, v) == [key |-> k, val |-> v]

\* Row mappings: with fewer keys than, as many as, and more keys than two
\* headers; one value is a date-only string
JsonRows ==
    {<<>>,
     <<Entry(nA, NumV(1))>>,
     <<Entry(nA, StrV(sDate)), Entry(nB, NumV(2))>>,
     <<Entry(nA, NumV(1)), Entry(nB, NumV(2)), Entry(nX, NumV(3))>>}

\* One sheet with one table: headers over {A, B}, rows over JsonRows, and a
\* ref that is missing, parsable or unparsable
TableDoc(headers, rows, ref) ==
    JDoc(<<JSheet(sS1, "visible", <<>>, Some(<<JTable(nT, ref, headers, rows, <<>>)>>), Absent)>>)

TableDocs ==
    {TableDoc(x[1], x[2], x[3]) :
       x \in SeqsUpTo({nA, nB}, MaxJsonHeaders) \X SeqsUpTo(JsonRows, MaxJsonRows)
             \X {<<>>, RefOf(2, 2, 3, 3), BadRef}}

\* Two sheets with tables whose desired names repeat within a sheet and
\* across the sheets; the second table of S1 may have no ref or a bad one
NameTable(name, ref) == JTable(name, ref, <<nA>>, <<<<Entry(nA, NumV(1))>>>>, <<>>)

NameDoc(n1, n2, ref2, n3, state2) ==
    JDoc(<<JSheet(sS1, "visible", <<>>,
                  Some(<<NameTable(n1, RefOf(1, 1, 1, 2)), NameTable(n2, ref2)>>), Absent),
           JSheet(sS2, state2, <<>>, Some(<<NameTable(n3, RefOf(1, 1, 1, 2))>>), Absent)>>)

NameDocs ==
    {NameDoc(x[1], x[2], x[3], x[4], x[5]) :
       x \in {nT, <<>>} \X {nT, nT2} \X {<<>>, RefOf(3, 1, 3, 2), BadRef} \X {nT, nT2, nU}
             \X {"visible", "hidden", "shown", ""}}

\* A sheet with a raw grid and merged ranges, some of which merge_cells
\* rejects ("ZZZZ1:A2": no such column; "B2:A1": corners out of order)
JsonRanges == {RefOf(1, 1, 2, 1), <<"Z", "Z", "Z", "Z", "1", ":", "A", "2">>,
               RefOf(2, 2, 1, 1), <<>>}

GridDoc(dim, ms, state) ==
    JDoc(<<JSheet(sS1, state, [i \in DOMAIN ms |-> JMerge(ms[i])], Absent,
                  Some(JGrid(dim, <<<<NumV(1), StrV(sText)>>, <<Null, StrV(sDate)>>>>,
                             [i \in DOMAIN ms |-> JMerge(ms[i])])))>>)

GridDocs ==
    {GridDoc(x[1], x[2], x[3]) :
       x \in {RefOf(1, 1, 2, 2), RefOf(2, 2, 3, 3)} \X SeqsUpTo(JsonRanges, MaxJsonMerges)
             \X {"visible", "veryHidden"}}

\* A table on S1 and neither table nor grid on S2; no sheets at all; a file
\* json.load cannot read
OtherDocs ==
    {JDoc(<<JSheet(sS1, "hidden", <<>>, Some(<<NameTable(nT, <<>>), NameTable(nT, <<>>)>>), Absent),
            JSheet(sS2, "visible", <<JMerge(RefOf(1, 1, 1, 2))>>, Absent, Absent)>>),
     JDoc(<<>>),
     [readable |-> FALSE, file |-> FileName, sheets |-> <<>>]}

\* A table on S1 that lists merged ranges, some of which merge_cells
\* rejects, and a sheet S2 after it
TableMergeDoc(ms) ==
    JDoc(<<JSheet(sS1, "visible", <<>>,
                  Some(<<JTable(nT, RefOf(1, 1, 2, 2), <<nA, nB>>,
                                <<<<Entry(nA, NumV(1)), Entry(nB, NumV(2))>>>>,
                                [i \in DOMAIN ms |-> JMerge(ms[i])])>>),
                  Absent),
           JSheet(sS2, "hidden", <<JMerge(RefOf(2, 2, 1, 1))>>, Absent, Absent)>>)

TableMergeDocs == {TableMergeDoc(ms) : ms \in SeqsUpTo(JsonRanges, MaxJsonMerges)}

\* JSON values of every type: strings shaped like a date that parse and
\* that do not, another string, null, a number, a boolean, a list
JsonValues ==
    {StrV(sDate), StrV(sDateTime), StrV(sBadMonth), StrV(sDate \o <<"T">>), StrV(sText), Null,
     NumV(7), BoolV(TRUE), ObjV(<<"[", "1", "]">>)}

\* One sheet with a grid of one line: the value v and a number
ValueDoc(v) ==
    JDoc(<<JSheet(sS1, "visible", <<>>, Absent,
                  Some(JGrid(RefOf(1, 1, 2, 1), <<<<v, NumV(1)>>>>, <<>>)))>>)

ValueDocs == {ValueDoc(v) : v \in JsonValues}

\* A table T with the header A, with or without a data row and a ref,
\* followed on the same sheet by a table X that has no ref
AppendDoc(rows, ref) ==
    JDoc(<<JSheet(sS1, "visible", <<>>,
                  Some(<<JTable(nT, ref, <<nA>>, rows, <<>>),
                         JTable(nX, <<>>, <<nB>>, <<<<Entry(nB, NumV(2))>>>>, <<>>)>>),
                  Absent)>>)

AppendDocs ==
    {AppendDoc(<<>>, <<>>), AppendDoc(<<>>, RefOf(1, 1, 1, 1)), AppendDoc(<<>>, RefOf(2, 3, 2, 3)),
     AppendDoc(<<<<Entry(nA, NumV(1))>>>>, <<>>),
     AppendDoc(<<<<Entry(nA, NumV(1))>>>>, RefOf(1, 1, 1, 2)),
     AppendDoc(<<<<Entry(nA, NumV(1))>>>>, RefOf(2, 3, 2, 4))}

JsonDocs ==
    TableDocs \cup NameDocs \cup GridDocs \cup OtherDocs \cup TableMergeDocs \cup ValueDocs
    \cup AppendDocs

(***************************************************************************)
(* complaint_eval: the row enricher.  A JSON file is either a list of row *)
(* objects or the nested export (sheets -> first sheet -> excel_tables[0] *)
(* -> headers, rows).  The language model is a source of replies: for     *)
(* every question None (the request failed) or any stripped text.         *)
(***************************************************************************)
UpperChars ==
    <<"A", "B", "C", "D", "E", "F", "G", "H", "I", "J", "K", "L", "M",
      "N", "O", "P", "Q", "R", "S", "T", "U", "V", "W", "X", "Y", "Z">>

LowerChars ==
    <<"a", "b", "c", "d", "e", "f", "g", "h", "i", "j", "k", "l", "m",
      "n", "o", "p", "q", "r", "s", "t", "u", "v", "w", "x", "y", "z">>

\* str.lower(), on the ASCII letters
LowerChar(c) ==
    IF \E i \in DOMAIN UpperChars : UpperChars[i] = c
    THEN LowerChars[CHOOSE i \in DOMAIN UpperChars : UpperChars[i] = c]
    ELSE c

lower(s) == [i \in DOMAIN s |-> LowerChar(s[i])]

\* needle in hay, for strings
Contains(hay, needle) ==
    \E i \in 0..(Len(hay) - Len(needle)) : SubSeq(hay, i + 1, i + Len(needle)) = needle

STRICT_YESNO ==
    <<<<"Y", "e", "s">>,
      <<"N", "o">>>>

DETECTED_LABELS ==
    <<<<"D", "u", "r", "i", "n", "g", " ", "I", "n", "s", "p", "e", "c", "t", "i", "o", "n">>,
      <<"D", "u", "r", "i", "n", "g", " ", "O", "p", "e", "r", "a", "t", "i", "o", "n">>,
      <<"D", "u", "r", "i", "n", "g", " ", "R", "e", "p", "r", "o", "c", "e", "s", "s", "i", "n", "g">>,
      <<"D", "u", "r", "i", "n", "g", " ", "S", "e", "r", "v", "i", "c", "e", " ", "A", "c", "t", "i", "v", "i", "t", "i", "e", "s">>,
      <<"D", "u", "r", "i", "n", "g", " ", "f", "o", "l", "l", "o", "w", "-", "u", "p", " ", "E", "x", "a", "m", "i", "n", "a", "t", "i", "o", "n", " ", "o", "f", " ", "P", "a", "t", "i", "e", "n", "t">>>>

PATIENT_HARM_LABELS ==
    <<<<"B", "l", "e", "e", "d", "i", "n", "g", " ", "o", "r", " ", "o", "t", "h", "e", "r", " ", "s", "e", "v", "e", "r", "e", " ", "d", "a", "m", "a", "g", "e">>,
      <<"D", "e", "l", "a", "y", " ", "o", "f", " ", "S", "u", "r", "g", "e", "r", "y">>,
      <<"n", "o", "n", "e">>>>

NEW_COLUMNS ==
    <<<<"I", "s", "s", "u", "e", " ", "r", "e", "l", "a", "t", "e", "d", " ", "t", "o", " ", "b", "r", "e", "a", "k", "a", "g", "e", "?">>,
      <<"I", "s", "s", "u", "e", " ", "r", "e", "l", "a", "t", "e", "d", " ", "t", "o", " ", "c", "e", "r", "a", "m", "i", "c", " ", "t", "i", "p", "?">>,
      <<"W", "h", "e", "n", " ", "w", "a", "s", " ", "t", "h", "e", " ", "i", "s", "s", "u", "e", " ", "d", "e", "t", "e", "c", "t", "e", "d", "?">>,
      <<"T", "y", "p", "e", " ", "o", "f", " ", "P", "a", "t", "i", "e", "n", "t", "-", "H", "a", "r", "m", "?">>,
      <<"S", "u", "m", "m", "a", "r", "y">>>>

\* reorder_row: the row with exactly the keys of headers_list, in that
\* order; a key the row does not have gets ""
reorder_row(row, headers_list) ==
    [i \in DOMAIN headers_list |-> Entry(headers_list[i], DictGet(row, headers_list[i], StrV(<<>>)))]

\* The first label, in the order of valid_labels, whose lower-case form
\* occurs in the lower-case answer
FirstLabelIn(lower_answer, valid_labels) ==
    IF \E i \in DOMAIN valid_labels : Contains(lower_answer, lower(valid_labels[i]))
    THEN Some(valid_labels[SetMin({i \in DOMAIN valid_labels :
                                     Contains(lower_answer, lower(valid_labels[i]))})])
    ELSE Absent

\* _parse_flexible_answer: None for no answer or an empty one, the answer
\* itself when it is a label, else the first label found inside it
parse_flexible_answer(raw_answer, valid_labels) ==
    IF raw_answer = Absent \/ raw_answer = Some(<<>>) THEN Absent
    ELSE IF raw_answer[1] \in Range(valid_labels) THEN raw_answer
    ELSE FirstLabelIn(lower(raw_answer[1]), valid_labels)

\* _ask_and_validate_question, given what call_ollama_chat returned: the
\* answer, its validity, and the lines logged on the way
Asked(ans, valid, lines) == [ans |-> ans, valid |-> valid, log |-> lines]

AskedLabel(raw_answer, parsed_answer) ==
    IF parsed_answer # Absent
    THEN Asked(parsed_answer[1], TRUE, <<>>)
    ELSE Asked(raw_answer[1], FALSE,
               <<LogLine("WARNING", "Could not parse valid label from model output", <<>>, <<>>)>>)

ask_and_validate_question(raw_answer, valid_labels, is_summary) ==
    IF raw_answer = Absent
    THEN Asked(<<>>, FALSE, <<LogLine("ERROR", "Ollama API request failed", <<>>, <<>>)>>)
    ELSE IF is_summary THEN Asked(raw_answer[1], raw_answer[1] # <<>>, <<>>)
    ELSE AskedLabel(raw_answer, parse_flexible_answer(raw_answer, valid_labels))

\* The five questions of one row, asked with the replies of the model
AskAll(reply) ==
    <<ask_and_validate_question(reply[1], STRICT_YESNO, FALSE),
      ask_and_validate_question(reply[2], STRICT_YESNO, FALSE),
      ask_and_validate_question(reply[3], DETECTED_LABELS, FALSE),
      ask_and_validate_question(reply[4], PATIENT_HARM_LABELS, FALSE),
      ask_and_validate_question(reply[5], <<>>, TRUE)>>

\* main, lines 341-346: out_row = dict(row), then the five assignments
RECURSIVE SetNewColumns(_, _, _)
SetNewColumns(out_row, asked, c) ==
    IF c > Len(NEW_COLUMNS) THEN out_row
    ELSE SetNewColumns(DictSet(out_row, NEW_COLUMNS[c],
                               StrV(IF asked[c].valid THEN asked[c].ans ELSE <<>>)),
                       asked, c + 1)

OutRow(row, asked) == SetNewColumns(row, asked, 1)

\* main, lines 349-357: the single line logged for the row
RowLine(asked) ==
    LogLine(IF \A c \in DOMAIN asked : asked[c].valid THEN "INFO" ELSE "WARNING",
            "Row", <<>>, [c \in DOMAIN asked |-> asked[c].valid])

RowLog(asked) == Concat([c \in DOMAIN asked |-> asked[c].log]) \o <<RowLine(asked)>>

\* The keys of a dict, in insertion order: list(row.keys())
KeyList(d) == [i \in DOMAIN d |-> d[i].key]

\* headers + [col for col in NEW_COLUMNS if col not in headers], which is
\* also what the append loop of lines 370-372 builds
RECURSIVE WithNewColumns(_, _)
WithNewColumns(headers_list, c) ==
    IF c > Len(NEW_COLUMNS) THEN headers_list
    ELSE WithNewColumns(IF NEW_COLUMNS[c] \in Range(headers_list) THEN headers_list
                        ELSE Append(headers_list, NEW_COLUMNS[c]),
                        c + 1)

ReorderAll(rws, headers_list) == [i \in DOMAIN rws |-> reorder_row(rws[i], headers_list)]

\* The JSON file of the enricher: a list of rows, or an object with sheets
\* (name, excel_tables: tables with optional headers, and rows)
ListData(rws) == [readable |-> TRUE, kind |-> "list", rows |-> rws, sheets |-> <<>>]

ETable(hdrs, rws) == [headers |-> hdrs, rows |-> rws]

ESheet(name, tables) == [name |-> name, excel_tables |-> tables]

SheetsData(sheets) == [readable |-> TRUE, kind |-> "dict", rows |-> <<>>, sheets |-> sheets]

UnreadableData == [readable |-> FALSE, kind |-> "dict", rows |-> <<>>, sheets |-> <<>>]

\* load_rows_from_json: the rows and headers, or nothing when it raises
\* ValueError or exits
Loaded(rws, hdrs) == [ok |-> TRUE, rows |-> rws, headers |-> hdrs]

NotLoaded == [ok |-> FALSE, rows |-> <<>>, headers |-> Absent]

LoadTable(table0) ==
    IF table0.rows = <<>> THEN NotLoaded
    ELSE Loaded(table0.rows,
                IF table0.headers = Absent THEN Some(KeyList(table0.rows[1]))
                ELSE table0.headers)

load_rows_from_json(data) ==
    IF ~data.readable THEN NotLoaded
    ELSE IF data.kind = "list"
    THEN IF data.rows # <<>> THEN Loaded(data.rows, Some(KeyList(data.rows[1]))) ELSE NotLoaded
    ELSE IF data.sheets = <<>> THEN NotLoaded
    ELSE IF data.sheets[1].excel_tables = <<>> THEN NotLoaded
    ELSE LoadTable(data.sheets[1].excel_tables[1])

\* main, lines 364-381: the output object, in the structure of the input
HeadersOf(table0, hdrs) ==
    IF table0.headers # Absent /\ table0.headers # Some(<<>>) THEN table0.headers[1]
    ELSE IF hdrs # Absent THEN hdrs[1] ELSE <<>>

TableOut(headers_list, enriched) ==
    ETable(Some(headers_list), ReorderAll(enriched, headers_list))

SheetsOut(data, hdrs, enriched) ==
    [data EXCEPT !.sheets[1].excel_tables[1] =
        TableOut(WithNewColumns(HeadersOf(@, hdrs), 1), enriched)]

ListOut(hdrs, enriched) ==
    ListData(ReorderAll(enriched, WithNewColumns(IF hdrs = Absent THEN <<>> ELSE hdrs[1], 1)))

OutputObj(data, hdrs, enriched) ==
    IF data.kind = "dict" THEN SheetsOut(data, hdrs, enriched) ELSE ListOut(hdrs, enriched)

(***************************************************************************)
(* The state machine                                                       *)
(***************************************************************************)
\* The directory holds one workbook or one JSON document; no script has run
Init ==
    /\ \/ xlsx \in {Some(w) : w \in Workbooks} /\ jfile = Absent
       \/ xlsx = Absent /\ jfile \in {Some(j) : j \in JsonDocs}
    /\ wb = <<>>
    /\ doc = JDoc(<<>>)
    /\ last = "none"
    /\ pc = "idle"
    /\ idx = 1
    /\ log = <<>>
    /\ hist = <<>>
    /\ runs = 0
    /\ first_visible = Absent
    /\ original_data = Absent
    /\ loaded = NotLoaded
    /\ enriched_rows = <<>>
    /\ output_obj = Absent
    /\ step = "idle"
    /\ elog = <<>>

\* A script is started on the directory.  Both are deterministic, so a
\* script is not started twice in a row on the files it has just read.
CanStart(script) == pc = "idle" /\ runs < MaxRuns /\ last # script

\* excel2json.process_workbook up to the loop: load_workbook, or the early
\* return when it raises
X2J_Load ==
    /\ CanStart("x2j")
    /\ xlsx # Absent
    /\ last' = "x2j"
    /\ runs' = runs + 1
    /\ idx' = 1
    /\ doc' = JDoc(<<>>)
    /\ IF xlsx[1].readable
       THEN /\ wb' = LoadWorkbook(xlsx[1])
            /\ pc' = "sheets"
            /\ log' = <<LogLine("INFO", "Workbook geladen", <<>>, <<>>)>>
       ELSE /\ wb' = <<>>
            /\ pc' = "idle"
            /\ log' = <<LogLine("ERROR", "Workbook konnte nicht geladen werden", <<>>, <<>>)>>
    /\ UNCHANGED <<xlsx, jfile, hist, first_visible>>
    /\ UNCHANGED enricher

\* excel2json.process_workbook: one pass of the loop over wb.worksheets
SheetProcessed(r) ==
    /\ doc' = IF r.ok THEN [doc EXCEPT !.sheets = SheetsSet(@, wb[idx].title, r.obj[1])]
              ELSE doc
    /\ log' = log \o r.log

X2J_Sheet ==
    /\ last = "x2j" /\ pc = "sheets" /\ idx <= Len(wb)
    /\ SheetProcessed(ProcessSheet(FileName, wb[idx]))
    /\ idx' = idx + 1
    /\ UNCHANGED <<xlsx, jfile, wb, last, pc, hist, runs, first_visible>>
    /\ UNCHANGED enricher

\* excel2json.process_workbook after the loop: json.dump
X2J_Write ==
    /\ last = "x2j" /\ pc = "sheets" /\ idx > Len(wb)
    /\ jfile' = Some(JsonDump(doc))
    /\ hist' = Append(hist, JsonDump(doc))
    /\ log' = Append(log, LogLine("INFO", "JSON geschrieben", <<>>, <<>>))
    /\ pc' = "idle"
    /\ UNCHANGED <<xlsx, wb, doc, last, idx, runs, first_visible>>
    /\ UNCHANGED enricher

\* json2excel.main and reconstruct_workbook up to the loop: json.load (or
\* the continue when it raises), Workbook() without its default sheet, and
\* the early save of an empty workbook when the document has no sheets
J2X_Read ==
    /\ CanStart("j2x")
    /\ jfile # Absent
    /\ last' = "j2x"
    /\ runs' = runs + 1
    /\ idx' = 1
    /\ first_visible' = Absent
    /\ IF ~jfile[1].readable
       THEN /\ log' = <<LogLine("ERROR", "JSON konnte nicht gelesen werden", <<>>, <<>>)>>
            /\ pc' = "idle"
            /\ UNCHANGED <<xlsx, wb, doc>>
       ELSE /\ doc' = jfile[1]
            /\ IF jfile[1].sheets = <<>>
               THEN /\ wb' = <<NewSheet(<<"S", "h", "e", "e", "t", "1">>)>>
                    /\ xlsx' = Some(SaveWorkbook(wb', 0))
                    /\ log' = <<LogLine("ERROR", "JSON enthaelt keine sheets", <<>>, <<>>)>>
                    /\ pc' = "idle"
               ELSE /\ wb' = <<>>
                    /\ pc' = "sheets"
                    /\ log' = <<>>
                    /\ UNCHANGED xlsx
    /\ UNCHANGED <<jfile, hist>>
    /\ UNCHANGED enricher

\* json2excel.reconstruct_workbook: one pass of the loop over the sheets.
\* An exception leaves reconstruct_workbook; main logs it and goes on to
\* the next file, so nothing is saved.
SheetReconstructed(r) ==
    IF r.ok
    THEN /\ wb' = Append(wb, r.ws)
         /\ first_visible' = IF r.ws.sheet_state = "visible" /\ first_visible = Absent
                             THEN Some(r.ws.title) ELSE first_visible
         /\ log' = log \o r.log
         /\ idx' = idx + 1
         /\ pc' = pc
    ELSE /\ log' = log \o r.log
                   \o <<LogLine("ERROR", "Fehler bei der Rekonstruktion", <<>>, <<>>)>>
         /\ pc' = "idle"
         /\ UNCHANGED <<wb, first_visible, idx>>

J2X_Sheet ==
    /\ last = "j2x" /\ pc = "sheets" /\ idx <= Len(doc.sheets)
    /\ SheetReconstructed(ReconstructSheet(wb, doc.sheets[idx].name, doc.sheets[idx].obj))
    /\ UNCHANGED <<xlsx, jfile, doc, last, hist, runs>>
    /\ UNCHANGED enricher

\* A workbook whose active sheet is never set
ActiveIndexDefault(wbk, fv) == 0

\* wb.sheetnames.index(first_visible_title), when there is a visible sheet
ActiveIndex(wbk, fv) ==
    IF fv = Absent THEN 0 ELSE (CHOOSE i \in DOMAIN wbk : wbk[i].title = fv[1]) - 1

\* json2excel.reconstruct_workbook after the loop: the active sheet, wb.save.
\* openpyxl refuses to write a workbook without a visible sheet
\* (IndexError raised after the archive was opened for writing): the
\* failure is logged and the file left behind cannot be read.
J2X_Save ==
    /\ last = "j2x" /\ pc = "sheets" /\ idx > Len(doc.sheets)
    /\ IF \E i \in DOMAIN wb : wb[i].sheet_state = "visible"
       THEN /\ xlsx' = Some(SaveWorkbook(wb, ActiveIndex(wb, first_visible)))
            /\ log' = Append(log, LogLine("INFO", "XLSX geschrieben", <<>>, <<>>))
       ELSE /\ xlsx' = Some(CorruptBook)
            /\ log' = Append(log, LogLine("ERROR", "Speichern fehlgeschlagen", <<>>, <<>>))
    /\ pc' = "idle"
    /\ UNCHANGED <<jfile, wb, doc, last, idx, hist, runs, first_visible>>
    /\ UNCHANGED enricher

Next == X2J_Load \/ X2J_Sheet \/ X2J_Write \/ J2X_Read \/ J2X_Sheet \/ J2X_Save

Spec == Init /\ [][Next]_vars

(***************************************************************************)
(* The row enricher as a state machine: one run of complaint_eval.main on  *)
(* one input file                                                          *)
(***************************************************************************)
MaxEnrichRows == 2

\* Rows: one with the keys of the usual header list, one with the same keys
\* in another order, one with a key outside the header list, and one that
\* already has a key named like a new column
EnrichRows ==
    {<<Entry(nA, NumV(1)), Entry(nB, StrV(<<"b">>))>>,
     <<Entry(nB, NumV(2)), Entry(nA, NumV(1))>>,
     <<Entry(nA, NumV(3)), Entry(nX, StrV(<<"x">>))>>,
     <<Entry(nA, NumV(4)), Entry(NEW_COLUMNS[5], StrV(<<"o", "l", "d">>))>>}

EnrichRowLists == SeqsUpTo(EnrichRows, MaxEnrichRows)

\* The headers of excel_tables[0]: missing, empty, or a list
EnrichHeaders == {Absent, Some(<<>>), Some(<<nA, nB>>), Some(<<nA>>)}

EnrichInputs ==
    {ListData(r) : r \in EnrichRowLists}
    \cup {SheetsData(<<ESheet(sS1, <<ETable(x[1], x[2])>>)>>) :
            x \in EnrichHeaders \X EnrichRowLists}
    \cup {SheetsData(<<ESheet(sS1, <<ETable(Some(<<nA, nB>>), r)>>),
                       ESheet(sS2, <<ETable(Some(<<nX>>), r)>>)>>) : r \in EnrichRowLists}
    \cup {SheetsData(<<>>), SheetsData(<<ESheet(sS1, <<>>)>>), UnreadableData}

\* What the model may reply to the five questions of a row: nothing at all
\* (the request fails), the labels themselves, the labels inside other
\* text and in another case, and text without a label
NoReply ==
    <<Absent,
      Absent,
      Absent,
      Absent,
      Absent>>

ExactReply ==
    <<Some(<<"Y", "e", "s">>),
      Some(<<"N", "o">>),
      Some(<<"D", "u", "r", "i", "n", "g", " ", "O", "p", "e", "r", "a", "t", "i", "o", "n">>),
      Some(<<"n", "o", "n", "e">>),
      Some(<<"T", "h", "e", " ", "t", "i", "p", " ", "b", "r", "o", "k", "e", ".">>)>>

ChattyReply ==
    <<Some(<<"y", "e", "s", ".">>),
      Some(<<"A", "n", "s", "w", "e", "r", ":", " ", "N", "o">>),
      Some(<<"d", "u", "r", "i", "n", "g", " ", "r", "e", "p", "r", "o", "c", "e", "s", "s", "i", "n", "g">>),
      Some(<<"D", "E", "L", "A", "Y", " ", "O", "F", " ", "S", "U", "R", "G", "E", "R", "Y", "!">>),
      Some(<<"s", "e", "e", " ", "[", "C", "o", "l", "u", "m", "n", "=", "A", "]">>)>>

UnclearReply ==
    <<Some(<<"M", "a", "y", "b", "e">>),
      Some(<<>>),
      Some(<<"u", "n", "k", "n", "o", "w", "n">>),
      Some(<<"n", "/", "a">>),
      Some(<<>>)>>

ModelReplies == {NoReply, ExactReply, ChattyReply, UnclearReply}

\* Nothing of the converters has run, and there are no files for them
ConvertersIdle ==
    /\ xlsx = Absent /\ jfile = Absent
    /\ wb = <<>>
    /\ doc = JDoc(<<>>)
    /\ last = "none"
    /\ pc = "idle"
    /\ idx = 1
    /\ log = <<>>
    /\ hist = <<>>
    /\ runs = 0
    /\ first_visible = Absent

\* The enricher is started on an input file
EnrichInit ==
    /\ ConvertersIdle
    /\ original_data \in {Some(d) : d \in EnrichInputs}
    /\ loaded = NotLoaded
    /\ enriched_rows = <<>>
    /\ output_obj = Absent
    /\ step = "start"
    /\ elog = <<>>

\* main, lines 319-326: load_rows_from_json, or sys.exit(1)
LoadLog(data, r) ==
    (IF data.readable /\ Len(data.sheets) > 1
     THEN <<LogLine("WARNING", "only processing the first one", <<>>, <<>>)>> ELSE <<>>)
    \o <<IF r.ok THEN LogLine("INFO", "Loaded rows to process", <<>>, Len(r.rows))
         ELSE LogLine("ERROR", "Failed to load or parse input file", <<>>, <<>>)>>

RowsLoaded(r) ==
    /\ loaded' = r
    /\ step' = IF r.ok THEN "rows" ELSE "exit"
    /\ elog' = LoadLog(original_data[1], r)

E_Load ==
    /\ step = "start"
    /\ RowsLoaded(load_rows_from_json(original_data[1]))
    /\ UNCHANGED <<original_data, enriched_rows, output_obj>>
    /\ UNCHANGED converters

\* main, lines 328-360: one pass of the loop over the rows
RowEnriched(row, asked) ==
    /\ enriched_rows' = Append(enriched_rows, OutRow(row, asked))
    /\ elog' = elog \o RowLog(asked)

E_Row ==
    /\ step = "rows" /\ Len(enriched_rows) < Len(loaded.rows)
    /\ \E reply \in ModelReplies :
          RowEnriched(loaded.rows[Len(enriched_rows) + 1], AskAll(reply))
    /\ UNCHANGED <<original_data, loaded, output_obj, step>>
    /\ UNCHANGED converters

\* main, lines 362-391: the output object is built and written
E_Write ==
    /\ step = "rows" /\ Len(enriched_rows) = Len(loaded.rows)
    /\ output_obj' = Some(OutputObj(original_data[1], loaded.headers, enriched_rows))
    /\ elog' = Append(elog, LogLine("INFO", "Wrote output with preserved structure", <<>>, <<>>))
    /\ step' = "done"
    /\ UNCHANGED <<original_data, loaded, enriched_rows>>
    /\ UNCHANGED converters

EnrichNext == E_Load \/ E_Row \/ E_Write

EnrichSpec == EnrichInit /\ [][EnrichNext]_vars

(***************************************************************************)
(* Properties.  Views of the state they speak about                        *)
(***************************************************************************)
\* The tables of a sheet object of the JSON document
TablesOf(obj) == IF obj.excel_tables = Absent THEN <<>> ELSE obj.excel_tables[1]

\* The tables of a JSON document, sheet by sheet
DocTables(d) == Concat([i \in DOMAIN d.sheets |-> TablesOf(d.sheets[i].obj)])

\* The forward script is running or has run last, on a workbook it could load
Extracting == last = "x2j" /\ xlsx # Absent /\ xlsx[1].readable

\* The reverse script is running or has run last, on a document it could read
Reconstructing == last = "j2x" /\ jfile # Absent /\ jfile[1].readable

NoDuplicates(seq) == Cardinality(Range(seq)) = Len(seq)

\* C1: every table that extract_excel_table has produced has a headers list
\* without duplicates, whatever the raw header row was (including a raw
\* header equal to a generated name, as in 'A', 'A', 'A_2').
C1_HeadersUnique ==
    Extracting => \A k \in DOMAIN DocTables(doc) : NoDuplicates(DocTables(doc)[k].headers)

\* No two of the ranges share a cell
Disjoint(ms) == \A i, j \in DOMAIN ms : i # j => CellsOf(ms[i]) \cap CellsOf(ms[j]) = {}

\* Every cell of every merged range of ws resolves to what the anchor of
\* that range resolves to
AnchorResolved(ws) ==
    \A i \in DOMAIN ws.merged :
        \A p \in CellsOf(ws.merged[i]) :
            get_value_with_merge(ws, p[1], p[2], build_merged_lookup(ws))
            = get_value_with_merge(ws, ws.merged[i][2], ws.merged[i][1], build_merged_lookup(ws))

\* C2 (as stated): on every loaded sheet, for every list of merged ranges,
\* overlapping ones included, every cell of a merged range resolves to the
\* value the range's anchor resolves to.
C2_AnchorValueAnyRanges == Extracting => \A s \in DOMAIN wb : AnchorResolved(wb[s])

\* C2 (amended): on every loaded sheet whose merged ranges share no cell,
\* every cell of a merged range resolves to the value the range's anchor
\* resolves to.
C2_AnchorValueDisjointRanges ==
    Extracting => \A s \in DOMAIN wb : Disjoint(wb[s].merged) => AnchorResolved(wb[s])

\* C2's case: a loaded sheet with two disjoint merged ranges, one of them of
\* several cells over an anchor that holds a value
C2_Witness ==
    /\ Extracting
    /\ \E s \in DOMAIN wb :
          /\ Len(wb[s].merged) = 2
          /\ Disjoint(wb[s].merged)
          /\ \E i \in DOMAIN wb[s].merged :
                /\ Cardinality(CellsOf(wb[s].merged[i])) > 1
                /\ CellValue(wb[s], wb[s].merged[i][2], wb[s].merged[i][1]) # Null

\* C3: the JSON of the second extraction equals the JSON of the third, the
\* workbook having been reconstructed from the JSON in between: after one
\* extract/reconstruct pass the extracted JSON is a fixed point.
C3_RoundTripStable == Len(hist) >= 3 => hist[2] = hist[3]

\* A date-only ISO string, such as "2024-03-01"
DateOnly(v) == v.k = "str" /\ Len(v.s) = 10 /\ date_fromisoformat(v.s) # Null

\* The sheet object has exactly one table, with a ref that can be resolved,
\* and lists no merged range
PlainTableSheet(obj) ==
    /\ Len(TablesOf(obj)) = 1
    /\ range_boundaries(TablesOf(obj)[1].ref) # <<>>
    /\ TablesOf(obj)[1].merged_cells_in_table = <<>>
    /\ obj.merged_cells = <<>>

\* Every date-only string among the row values of the table t was written
\* to its cell of ws as a date value
DatesWritten(ws, t) ==
    LET bnd == range_boundaries(t.ref)
    IN  \A r_i \in DOMAIN t.rows :
            \A k \in DOMAIN t.headers :
                DateOnly(DictGet(t.rows[r_i], t.headers[k], Null))
                => CellValue(ws, bnd[2] + r_i, bnd[1] + k - 1).k = "date"

\* Every date-only string among the row values of the document a is found,
\* at the same sheet, table, row and key, in the document b
DatesKept(a, b) ==
    \A s \in DOMAIN a.sheets \cap DOMAIN b.sheets :
        LET ta == TablesOf(a.sheets[s].obj)
            tb == TablesOf(b.sheets[s].obj)
        IN  \A k \in DOMAIN ta \cap DOMAIN tb :
                \A r \in DOMAIN ta[k].rows \cap DOMAIN tb[k].rows :
                    \A e \in DOMAIN ta[k].rows[r] :
                        DateOnly(ta[k].rows[r][e].val)
                        => DictGet(tb[k].rows[r], ta[k].rows[r][e].key, Null)
                           = ta[k].rows[r][e].val

\* C4: a row value of the JSON that is a date-only ISO string is written to
\* its cell as a date value, and the extraction that follows the
\* reconstruction yields the identical string at the same place.
C4_DateOnlyRoundTrip ==
    /\ Reconstructing =>
          \A s \in DOMAIN wb \cap DOMAIN doc.sheets :
              PlainTableSheet(doc.sheets[s].obj)
              => DatesWritten(wb[s], TablesOf(doc.sheets[s].obj)[1])
    /\ \A n \in DOMAIN hist : n + 1 \in DOMAIN hist => DatesKept(hist[n], hist[n + 1])

\* The reverse script has ended on a document it could read
Reconstructed == Reconstructing /\ pc = "idle"

\* The reverse script has ended with "XLSX geschrieben"
Saved == Reconstructed /\ log # <<>> /\ log[Len(log)].msg = "XLSX geschrieben"

\* Some table of the document has a ref that cannot be resolved to bounds
HasUnresolvableRef(d) ==
    \E k \in DOMAIN DocTables(d) :
        DocTables(d)[k].ref # <<>> /\ range_boundaries(DocTables(d)[k].ref) = <<>>

\* C5: when a table of the JSON document has a ref that cannot be resolved,
\* the reverse run still processes the remaining tables and sheets and
\* saves the workbook, with a sheet for every sheet of the document.
C5_TableFailureStillSaved ==
    (Reconstructed /\ doc.sheets # <<>> /\ HasUnresolvableRef(doc))
    => /\ Saved
       /\ xlsx # Absent /\ xlsx[1].readable
       /\ Len(xlsx[1].sheets) = Len(doc.sheets)

\* The written JSON holds, under the sheet title, a table of that name
InJson(j, title, name) ==
    \E i \in DOMAIN j.sheets :
        /\ j.sheets[i].name = title
        /\ \E k \in DOMAIN TablesOf(j.sheets[i].obj) : TablesOf(j.sheets[i].obj)[k].name = name

\* C6: after a forward run, every table of the workbook whose extraction
\* does not fail (its ref can be resolved) appears in the written JSON,
\* also when another table of the same sheet or workbook fails.
C6_OtherTablesExtracted ==
    (Extracting /\ pc = "idle")
    => /\ jfile # Absent
       /\ \A s \in DOMAIN xlsx[1].sheets :
             \A k \in DOMAIN xlsx[1].sheets[s].tables :
                 range_boundaries(xlsx[1].sheets[s].tables[k].ref) # <<>>
                 => InJson(jfile[1], xlsx[1].sheets[s].title,
                           xlsx[1].sheets[s].tables[k].displayName)

\* The log lines of write_tables about registering a table, in order: one
\* for every table whose pass did not raise
IsTableLine(l) == l.msg \in {"Table angelegt", "Table konnte nicht angelegt werden"}

TableLines == SelectSeq(log, IsTableLine)

\* The numbers of columns and of rows a range string spans
Span(ref) ==
    LET b == range_boundaries(ref)
    IN  <<b[3] - b[1] + 1, b[4] - b[2] + 1>>

\* Every table registered on a sheet of the workbook was logged as such,
\* with the same name and ref
RegisteredLogged ==
    \A s \in DOMAIN wb :
        \A j \in DOMAIN wb[s].tables :
            \E k \in DOMAIN TableLines :
                /\ TableLines[k].msg = "Table angelegt"
                /\ TableLines[k].src = <<wb[s].tables[j].displayName, wb[s].tables[j].ref>>

\* C7 (as stated): the ref of every table written by write_tables spans
\* exactly as many columns as the JSON table has headers, and one row more
\* than it has rows, also when rows carry more keys than there are headers.
C7_RefSpansHeaderCount ==
    Reconstructing
    => /\ Len(TableLines) <= Len(DocTables(doc))
       /\ RegisteredLogged
       /\ \A k \in DOMAIN TableLines :
             Span(TableLines[k].src[2])
             = <<Len(DocTables(doc)[k].headers), Len(DocTables(doc)[k].rows) + 1>>

\* C7 (amended): the ref of every table written by write_tables spans
\* max(number of headers, largest number of keys of a row) columns, and one
\* row more than the table has rows.
C7_RefSpansColumnCount ==
    Reconstructing
    => /\ Len(TableLines) <= Len(DocTables(doc))
       /\ RegisteredLogged
       /\ \A k \in DOMAIN TableLines :
             Span(TableLines[k].src[2])
             = <<Max2(Len(DocTables(doc)[k].headers),
                      SetMax({0} \cup {Len(DocTables(doc)[k].rows[r]) :
                                         r \in DOMAIN DocTables(doc)[k].rows})),
                 Len(DocTables(doc)[k].rows) + 1>>

\* C7's case: a table was registered in the saved workbook whose rows carry
\* more keys than the table has headers
C7_Witness ==
    /\ Saved
    /\ \E k \in DOMAIN TableLines :
          /\ TableLines[k].msg = "Table angelegt"
          /\ \E r \in DOMAIN DocTables(doc)[k].rows :
                Len(DocTables(doc)[k].rows[r]) > Len(DocTables(doc)[k].headers)
          /\ \E s \in DOMAIN wb :
                \E j \in DOMAIN wb[s].tables : wb[s].tables[j].ref = TableLines[k].src[2]

\* The sheet object holds a raw grid, no table and no merged range
PlainGridSheet(obj) ==
    /\ TablesOf(obj) = <<>>
    /\ obj.used_range # Absent
    /\ obj.merged_cells = <<>>
    /\ obj.used_range[1].merged_cells = <<>>
    /\ range_boundaries(obj.used_range[1].dimensions) # <<>>

\* grid[i][j] is on the cell i rows below and j columns right of the
\* top-left cell of dimensions (i, j 0-based)
GridAtOrigin(ws, ur) ==
    LET b == range_boundaries(ur.dimensions)
    IN  \A i \in DOMAIN ur.grid :
            \A j \in DOMAIN ur.grid[i] :
                CellValue(ws, b[2] + i - 1, b[1] + j - 1) = coerce_value(ur.grid[i][j])

\* C8: write_used_range writes grid[i][j] to the cell at (origin_row + i,
\* origin_col + j), the origin being the top-left cell of the used range's
\* dimensions.
C8_GridAtOrigin ==
    Reconstructing
    => \A s \in DOMAIN wb \cap DOMAIN doc.sheets :
           PlainGridSheet(doc.sheets[s].obj)
           => GridAtOrigin(wb[s], doc.sheets[s].obj.used_range[1])

\* The display names of the tables registered in the workbook, sheet by sheet
RegisteredNames ==
    Concat([s \in DOMAIN wb |-> [j \in DOMAIN wb[s].tables |-> wb[s].tables[j].displayName]])

\* C9: after reconstruct_workbook has processed a document, every table of
\* the document is registered, a colliding desired name having received a
\* suffix, and the display names are pairwise distinct across the workbook.
C9_TableNamesUnique ==
    Saved => NoDuplicates(RegisteredNames) /\ Len(RegisteredNames) = Len(DocTables(doc))

\* An audit line of extract_excel_table
IsTableMap(l) == l.msg = "Map" /\ Len(l.tgt) = 3

\* C10: no two audit lines of a forward run map cells of a sheet to the same
\* target rows[i][header] of the same table, and every row mapping has as
\* many keys as the table has columns.
C10_OneLocationPerCell ==
    Extracting
    => /\ \A a, b \in DOMAIN log :
             (a # b /\ IsTableMap(log[a]) /\ IsTableMap(log[b])
              /\ log[a].src[1] = log[b].src[1])
             => log[a].tgt # log[b].tgt
       /\ \A k \in DOMAIN DocTables(doc) :
             \A r \in DOMAIN DocTables(doc)[k].rows :
                 Len(DocTables(doc)[k].rows[r]) = Span(DocTables(doc)[k].ref)[1]

\* p is the beginning of s
IsPrefix(p, s) == Len(p) <= Len(s) /\ SubSeq(s, 1, Len(p)) = p

\* The place of the sheet titled title among the sheets of the workbook
SheetPos(wbk, title) == CHOOSE i \in DOMAIN wbk : wbk[i].title = title

\* The JSON table t lists the columns and the rows of the table tab of the
\* sheet ws in their order on the sheet: header c names column c, row r
\* holds, under a header that occurs once, the value of line r, column c
TableInSheetOrder(ws, tab, t) ==
    LET b == range_boundaries(tab.ref)
        lu == build_merged_lookup(ws)
        raw(c) == get_value_with_merge(ws, b[2], b[1] + c - 1, lu)
    IN  /\ t.name = tab.displayName
        /\ Len(t.headers) = b[3] - b[1] + 1
        /\ \A c \in DOMAIN t.headers :
              IsPrefix(IF raw(c) = Null THEN <<>> ELSE PyStr(raw(c)), t.headers[c])
        /\ Len(t.rows) = b[4] - b[2]
        /\ \A r \in DOMAIN t.rows :
              \A c \in DOMAIN t.headers :
                  Cardinality({d \in DOMAIN t.headers : t.headers[d] = t.headers[c]}) = 1
                  => DictGet(t.rows[r], t.headers[c], Null)
                     = get_value_with_merge(ws, b[2] + r, b[1] + c - 1, lu)

\* Extraction: the sheets of the JSON are sheets of the workbook in the
\* workbook's order, and the tables of each are the tables of its sheet in
\* the sheet's order, each with its columns and rows in order
ExtractedInOrder ==
    /\ \A i \in DOMAIN doc.sheets : \E w \in DOMAIN wb : wb[w].title = doc.sheets[i].name
    /\ \A i, j \in DOMAIN doc.sheets :
          i < j => SheetPos(wb, doc.sheets[i].name) < SheetPos(wb, doc.sheets[j].name)
    /\ \A i \in DOMAIN doc.sheets :
          LET ws == wb[SheetPos(wb, doc.sheets[i].name)]
              ts == TablesOf(doc.sheets[i].obj)
          IN  ts # <<>>
              => /\ Len(ts) = Len(ws.tables)
                 /\ \A k \in DOMAIN ts : TableInSheetOrder(ws, ws.tables[k], ts[k])

\* The name write_tables asks for, for the table t at the 0-based place t_idx
DesiredName(t, t_idx) ==
    IF t.name # <<>> THEN t.name ELSE <<"T", "a", "b", "l", "e">> \o Digits(t_idx + 1)

\* The 0-based place, within its sheet, of the k-th table of the document
PlaceInSheet(d, k) ==
    LET before(s) == Len(Concat([i \in 1..(s - 1) |-> TablesOf(d.sheets[i].obj)]))
        s == CHOOSE x \in DOMAIN d.sheets :
                 before(x) < k /\ k <= before(x) + Len(TablesOf(d.sheets[x].obj))
    IN  k - before(s) - 1

\* The sheet object has one table, placed by a ref that can be resolved or
\* at the top-left corner, and lists no merged range
OneTableSheet(obj) ==
    /\ Len(TablesOf(obj)) = 1
    /\ TablesOf(obj)[1].ref # <<>> => range_boundaries(TablesOf(obj)[1].ref) # <<>>
    /\ TablesOf(obj)[1].merged_cells_in_table = <<>>
    /\ obj.merged_cells = <<>>

\* The headers of t are on the first line of the table on ws, column by
\* column, and row r of t is on the r-th line below
TableOnSheetInOrder(ws, t) ==
    LET b == IF t.ref = <<>> THEN <<1, 1>> ELSE range_boundaries(t.ref)
    IN  /\ \A c \in DOMAIN t.headers : CellValue(ws, b[2], b[1] + c - 1) = StrV(t.headers[c])
        /\ \A r \in DOMAIN t.rows :
              \A c \in DOMAIN t.headers :
                  CellValue(ws, b[2] + r, b[1] + c - 1)
                  = coerce_value(DictGet(t.rows[r], t.headers[c], Null))

\* Reconstruction: the sheets built are the sheets of the document in its
\* order, the tables registered are, in the document's order, the tables
\* logged as registered, each under its desired name (or that name with a
\* suffix), and the headers and rows of a table are on the sheet in order
ReconstructedInOrder ==
    /\ Len(wb) <= Len(doc.sheets)
    /\ \A s \in DOMAIN wb : IsPrefix(Slice(doc.sheets[s].name, 1, TitleLimit), wb[s].title)
    /\ Len(TableLines) <= Len(DocTables(doc))
    /\ \A k \in DOMAIN TableLines :
          IsPrefix(DesiredName(DocTables(doc)[k], PlaceInSheet(doc, k)), TableLines[k].src[1])
    /\ (\A l \in DOMAIN log : log[l].msg # "Fehler bei der Rekonstruktion")
       => LET made == SelectSeq(TableLines, LAMBDA l : l.msg = "Table angelegt")
              reg == Concat([s \in DOMAIN wb |-> wb[s].tables])
          IN  /\ Len(reg) = Len(made)
              /\ \A k \in DOMAIN reg : made[k].src = <<reg[k].displayName, reg[k].ref>>
    /\ \A s \in DOMAIN wb :
          OneTableSheet(doc.sheets[s].obj)
          => TableOnSheetInOrder(wb[s], TablesOf(doc.sheets[s].obj)[1])

\* C11: in both directions the sheets, the tables of a sheet, the headers of
\* a table and the rows of a table appear in the output in the order of the
\* input, none reordered.
C11_OrderPreserved ==
    /\ Extracting => ExtractedInOrder
    /\ (Reconstructing /\ doc.sheets # <<>>) => ReconstructedInOrder

\* C11's case: a forward run has extracted a table of several columns and
\* several rows that differ, from a sheet of a workbook of several sheets or
\* from a workbook the reverse script has written
C11_Witness ==
    /\ Extracting /\ pc = "idle"
    /\ \E k \in DOMAIN DocTables(doc) :
          /\ Len(DocTables(doc)[k].headers) >= 2
          /\ NoDuplicates(DocTables(doc)[k].headers)
          /\ Len(DocTables(doc)[k].rows) >= 2
          /\ DocTables(doc)[k].rows[1] # DocTables(doc)[k].rows[2]

\* The merged ranges a sheet object lists: with its tables, with its used
\* range and for the sheet
ListedMerges(obj) ==
    Concat([k \in DOMAIN TablesOf(obj) |-> TablesOf(obj)[k].merged_cells_in_table])
    \o (IF TablesOf(obj) = <<>> /\ obj.used_range # Absent THEN obj.used_range[1].merged_cells
        ELSE <<>>)
    \o obj.merged_cells

\* Every listed range merge_cells accepts is merged on the sheet, and every
\* listed range it rejects was logged as skipped
MergesApplied(ws, obj) ==
    \A m \in DOMAIN ListedMerges(obj) :
        LET r == ListedMerges(obj)[m].range
        IN  r # <<>>
            => IF ValidMergeRange(r)
               THEN InMerged(ws, range_boundaries(r))
               ELSE \E l \in DOMAIN log :
                        /\ log[l].lvl = "WARNING"
                        /\ log[l].msg = "Merge uebersprungen"
                        /\ log[l].src = <<ws.title, r>>

\* Nothing but a merged range can fail on the sheet object: it has no table,
\* or one table of at least one column placed by a ref that can be resolved
\* or at the top-left corner
OnlyMergesCanFail(obj) ==
    \/ TablesOf(obj) = <<>>
    \/ /\ Len(TablesOf(obj)) = 1
       /\ TablesOf(obj)[1].ref # <<>> => range_boundaries(TablesOf(obj)[1].ref) # <<>>
       /\ Len(TablesOf(obj)[1].headers) >= 1

\* C12: a listed merged range whose application fails is skipped with a
\* WARNING, every other listed range of the sheet is merged, and neither the
\* sheet nor the run is given up because of it: every sheet of a document in
\* which nothing but merged ranges can fail is built.
C12_BadMergeSkipped ==
    Reconstructing
    => /\ \A s \in DOMAIN wb \cap DOMAIN doc.sheets : MergesApplied(wb[s], doc.sheets[s].obj)
       /\ (pc = "idle" /\ \A s \in DOMAIN doc.sheets : OnlyMergesCanFail(doc.sheets[s].obj))
          => /\ Len(wb) = Len(doc.sheets) \/ doc.sheets = <<>>
             /\ \A l \in DOMAIN log : log[l].msg # "Fehler bei der Rekonstruktion"

\* C12's case: a table lists a range that merge_cells rejects and, after it,
\* one that it accepts; the sheet after the table's sheet has been built and
\* the workbook written
C12_Witness ==
    /\ Saved
    /\ Len(wb) = 2
    /\ \E k \in DOMAIN DocTables(doc) :
          LET ms == DocTables(doc)[k].merged_cells_in_table
          IN  /\ Len(ms) = 2
              /\ ms[1].range # <<>> /\ ~ValidMergeRange(ms[1].range)
              /\ ValidMergeRange(ms[2].range)
              /\ InMerged(wb[1], range_boundaries(ms[2].range))

\* The sheet object has exactly one of the keys excel_tables and used_range,
\* excel_tables if and only if the sheet ws declares a table
OneOfTablesAndGrid(obj, ws) ==
    /\ (obj.excel_tables = Absent) # (obj.used_range = Absent)
    /\ (obj.excel_tables # Absent) <=> (ws.tables # <<>>)

\* C13: every sheet object of the result, and of the JSON written from it,
\* has exactly one of the keys 'excel_tables' and 'used_range':
\* 'excel_tables' if and only if the sheet declares at least one table,
\* 'used_range' otherwise, also for a sheet without cells.
C13_TablesXorGrid ==
    Extracting
    => /\ \A i \in DOMAIN doc.sheets :
             OneOfTablesAndGrid(doc.sheets[i].obj, wb[SheetPos(wb, doc.sheets[i].name)])
       /\ pc = "idle"
          => \A i \in DOMAIN jfile[1].sheets :
                 OneOfTablesAndGrid(jfile[1].sheets[i].obj,
                                    wb[SheetPos(wb, jfile[1].sheets[i].name)])

\* C13's case: the JSON written for a workbook of two sheets, the first
\* with a table and the second without
C13_Witness ==
    /\ Extracting /\ pc = "idle"
    /\ Len(wb) = 2 /\ wb[1].tables # <<>> /\ wb[2].tables = <<>>
    /\ Len(jfile[1].sheets) = 2
    /\ jfile[1].sheets[1].obj.excel_tables # Absent
    /\ jfile[1].sheets[2].obj.used_range # Absent

\* The string has '-' at the places 4 and 7 (0-based) and at least 10
\* characters
DateShaped(str) == Len(str) >= 10 /\ str[5] = "-" /\ str[8] = "-"

\* c is what coerce_value is to return for the JSON value v
Coerced(v, c) ==
    /\ v.k \in {"num", "bool", "null"} => c = v
    /\ v.k = "obj" => c = StrV(v.s)
    /\ (v.k = "str" /\ ~DateShaped(v.s)) => c = v
    /\ (v.k = "str" /\ DateShaped(v.s)
        /\ datetime_fromisoformat(v.s) = Null /\ date_fromisoformat(v.s) = Null) => c = v
    /\ v.k = "str" => (c = v \/ c.k \in {"datetime", "date"})

\* The sheet object holds a raw grid, no table and no merged range
GridOnly(obj) ==
    /\ TablesOf(obj) = <<>>
    /\ obj.used_range # Absent
    /\ obj.merged_cells = <<>>
    /\ obj.used_range[1].merged_cells = <<>>

\* C14: coerce_value raises for no JSON value: a string shaped like
\* YYYY-MM-DD... that fails both parses is returned unchanged, as is a string
\* of another shape; numbers, booleans and null are returned unchanged; a
\* list or object is returned as its string form.  (Seen on the cells that
\* write_used_range fills with coerce_value(v).)
C14_CoerceNeverRaises ==
    Reconstructing
    => /\ \A s \in DOMAIN wb \cap DOMAIN doc.sheets :
             GridOnly(doc.sheets[s].obj)
             => \A i \in DOMAIN doc.sheets[s].obj.used_range[1].grid :
                    \A j \in DOMAIN doc.sheets[s].obj.used_range[1].grid[i] :
                        Coerced(doc.sheets[s].obj.used_range[1].grid[i][j],
                                CellValue(wb[s], i, j))
       /\ (pc = "idle" /\ \A s \in DOMAIN doc.sheets : GridOnly(doc.sheets[s].obj))
          => \A l \in DOMAIN log : log[l].msg # "Fehler bei der Rekonstruktion"

\* C14's case: a grid value shaped like a date that fails both parses has
\* been written to its cell
C14_Witness ==
    /\ Saved
    /\ GridOnly(doc.sheets[1].obj)
    /\ doc.sheets[1].obj.used_range[1].grid[1][1] = StrV(sBadMonth)
    /\ CellValue(wb[1], 1, 1) = StrV(sBadMonth)


\* ---- C15 ----
\* The enricher has written its output
Enriched == step = "done" /\ output_obj # Absent

\* The rows of the output object, where the input had them
OutputRows ==
    IF output_obj[1].kind = "list" THEN output_obj[1].rows
    ELSE output_obj[1].sheets[1].excel_tables[1].rows

\* The place of a key in a row
KeyPlace(row, key) == CHOOSE i \in DOMAIN row : row[i].key = key

\* The output row has every key/value pair of the input row, keeps the
\* input's keys in their order, and has nothing else but new columns and
\* empty cells for headers the input row does not have
RowKept(in_row, out_row) ==
    /\ \A i \in DOMAIN in_row : in_row[i] \in Range(out_row)
    /\ \A i, j \in DOMAIN in_row :
          (i < j /\ in_row[i].key \in DictKeys(out_row) /\ in_row[j].key \in DictKeys(out_row))
          => KeyPlace(out_row, in_row[i].key) < KeyPlace(out_row, in_row[j].key)
    /\ \A o \in DOMAIN out_row :
          out_row[o].key \notin Range(NEW_COLUMNS)
          => \/ out_row[o] \in Range(in_row)
             \/ out_row[o].key \notin DictKeys(in_row) /\ out_row[o].val = StrV(<<>>)

\* C15: the row enricher never changes original data.  Once the output is
\* written, every input row has a corresponding output row that holds each
\* of its key/value pairs with the same value and its keys in the same
\* relative order, and only the five new columns carry model output; this
\* includes rows that already have a key named like a new column and rows
\* with keys outside the header list.
C15_OriginalDataKept ==
    Enriched
    => /\ Len(OutputRows) = Len(loaded.rows)
       /\ \A i \in DOMAIN loaded.rows : RowKept(loaded.rows[i], OutputRows[i])


\* ---- C16 ----
\* The last range, in registration order, that covers the cell p
LastCovering(ms, p) == SetMax({i \in DOMAIN ms : p \in CellsOf(ms[i])})

Covered(ms) == UNION {CellsOf(ms[i]) : i \in DOMAIN ms}

\* The cells of the sheets in the model: the blocks of the workbooks lie
\* within rows and columns 1 .. MaxCols
SheetCells == (1..MaxCols) \X (1..MaxCols)

LookupIsLastWins(ws, lu) ==
    /\ DOMAIN lu = Covered(ws.merged)
    /\ \A p \in DOMAIN lu :
          lu[p] = <<ws.merged[LastCovering(ws.merged, p)][2],
                    ws.merged[LastCovering(ws.merged, p)][1]>>
    /\ \A i \in DOMAIN ws.merged :
          (/\ Cardinality(CellsOf(ws.merged[i])) = 1
           /\ \A j \in DOMAIN ws.merged : j > i => CellsOf(ws.merged[j]) \cap CellsOf(ws.merged[i]) = {})
          => lu[<<ws.merged[i][2], ws.merged[i][1]>>] = <<ws.merged[i][2], ws.merged[i][1]>>
    /\ \A p \in SheetCells \ Covered(ws.merged) :
          /\ p \notin DOMAIN lu
          /\ get_value_with_merge(ws, p[1], p[2], lu) = CellValue(ws, p[1], p[2])

\* C16: on every loaded sheet, whatever its list of merged ranges
\* (overlapping or not), build_merged_lookup yields a lookup: every cell
\* covered by a range maps to the anchor of the last-registered range that
\* covers it, a single-cell range maps its cell to itself, and a cell
\* covered by no range is absent and resolves to its own value.
C16_LastRangeWins ==
    Extracting => \A s \in DOMAIN wb : LookupIsLastWins(wb[s], build_merged_lookup(wb[s]))

\* C16's case: a loaded sheet with two overlapping ranges of different
\* anchors, and one with a single-cell range
C16_Witness ==
    /\ Extracting
    /\ \E s \in DOMAIN wb :
          /\ Len(wb[s].merged) = 2
          /\ CellsOf(wb[s].merged[1]) \cap CellsOf(wb[s].merged[2]) # {}
          /\ <<wb[s].merged[1][1], wb[s].merged[1][2]>> # <<wb[s].merged[2][1], wb[s].merged[2][2]>>
    /\ \E s \in DOMAIN wb : \E i \in DOMAIN wb[s].merged :
          Cardinality(CellsOf(wb[s].merged[i])) = 1


\* ---- C17 ----
\* The sheet-level ranges that share a cell with the rectangle bnd, in the
\* order of the sheet, as merged_cells_in_table lists them
SharingCells(ms, bnd) ==
    LET sharing == SelectSeq(ms, LAMBDA m : CellsOf(m) \cap CellsOf(bnd) # {})
    IN  [i \in DOMAIN sharing |->
           [range |-> RangeStr(sharing[i]), anchor |-> cell_addr(sharing[i][2], sharing[i][1])]]

SheetNamed(title) == wb[CHOOSE i \in DOMAIN wb : wb[i].title = title]

\* C17: for every extracted table, merged_cells_in_table lists a merged
\* range of the sheet if and only if the range and the table share at least
\* one cell (a single shared boundary cell is enough; a range entirely to
\* one side is left out), in the order of the sheet's merged ranges.
C17_TouchingMerges ==
    Extracting
    => \A s \in DOMAIN doc.sheets :
          \A t \in DOMAIN TablesOf(doc.sheets[s].obj) :
              TablesOf(doc.sheets[s].obj)[t].merged_cells_in_table
              = SharingCells(SheetNamed(doc.sheets[s].name).merged,
                             range_boundaries(TablesOf(doc.sheets[s].obj)[t].ref))

\* C17's case: a table was extracted from a sheet with two merged ranges,
\* the first beside the table and the second sharing exactly one cell with
\* it, and only the second is listed
C17_Witness ==
    /\ Extracting
    /\ \E s \in DOMAIN doc.sheets :
          /\ TablesOf(doc.sheets[s].obj) # <<>>
          /\ LET ms == SheetNamed(doc.sheets[s].name).merged
                 tb == TablesOf(doc.sheets[s].obj)[1]
             IN  /\ Len(ms) = 2
                 /\ CellsOf(ms[1]) \cap CellsOf(range_boundaries(tb.ref)) = {}
                 /\ Cardinality(CellsOf(ms[2]) \cap CellsOf(range_boundaries(tb.ref))) = 1
                 /\ Cardinality(CellsOf(ms[2])) > 1
                 /\ Len(tb.merged_cells_in_table) = 1
                 /\ tb.merged_cells_in_table[1].range = RangeStr(ms[2])


\* ---- C18 ----
\* The tables of sheet s were all written and registered, so that the refs
\* registered on the sheet tell where each table of the JSON was placed
AllRegistered(s) == Len(wb[s].tables) = Len(TablesOf(doc.sheets[s].obj))

PlacedRows(s, j) ==
    <<range_boundaries(wb[s].tables[j].ref)[2], range_boundaries(wb[s].tables[j].ref)[4]>>

\* C18: a table without 'ref' is placed below everything written for the
\* earlier tables of the sheet, with at least one blank row between, so
\* none of their cells is overwritten; this includes an earlier table that
\* occupies only row 1 (headers and no data rows).
C18_AppendedBelow ==
    Reconstructing
    => \A s \in DOMAIN wb \cap DOMAIN doc.sheets :
          AllRegistered(s)
          => \A j \in DOMAIN wb[s].tables :
                TablesOf(doc.sheets[s].obj)[j].ref = <<>>
                => \A i \in 1..(j - 1) : PlacedRows(s, j)[1] >= PlacedRows(s, i)[2] + 2


\* ---- C19 ----
\* The line of the sheet that holds row r_i (1-based) of the table placed
\* at bnd: the values of its cells, column by column
SheetLine(ws, bnd, r_i) ==
    [k \in 1..(bnd[3] - bnd[1] + 1) |-> CellValue(ws, bnd[2] + r_i, bnd[1] + k - 1)]

\* Every key of the row has its value, as coerce_value writes it, in a cell
\* of the line, and the columns of the headers hold the values stored
\* under the headers
RowWritten(t, row, line) ==
    /\ \A e \in DOMAIN row : coerce_value(row[e].val) \in Range(line)
    /\ \A c \in DOMAIN t.headers :
          c <= Len(line) /\ line[c] = coerce_value(DictGet(row, t.headers[c], Null))

\* C19: write_tables loses no row data.  For every table written and
\* registered and every row of it, the value of every key of the row
\* mapping, keys beyond the declared headers included, is in a cell of that
\* row's line of the sheet, and every column c below len(headers) holds the
\* value stored under headers[c].  (Stated for sheets without merged
\* ranges: merging empties the covered cells after they were written.)
C19_NoRowDataLost ==
    Reconstructing
    => \A s \in DOMAIN wb \cap DOMAIN doc.sheets :
          (AllRegistered(s) /\ Len(wb[s].tables) = 1 /\ wb[s].merged = <<>>)
          => \A r_i \in DOMAIN TablesOf(doc.sheets[s].obj)[1].rows :
                RowWritten(TablesOf(doc.sheets[s].obj)[1],
                           TablesOf(doc.sheets[s].obj)[1].rows[r_i],
                           SheetLine(wb[s], range_boundaries(wb[s].tables[1].ref), r_i))


\* ---- C20 ----
\* The reverse script has been through the loop over all sheets of a
\* document that has sheets
AllSheetsProcessed == Reconstructing /\ doc.sheets # <<>> /\ Len(wb) = Len(doc.sheets)

Visibilities == {"visible", "hidden", "veryHidden"}

VisibleSheets == {s \in DOMAIN wb : wb[s].sheet_state = "visible"}

\* C20: after the loop over the sheets, every sheet's visibility is one of
\* visible, hidden, veryHidden: the one the JSON gives, or visible when the
\* JSON gives none or an invalid one.  The active sheet is the first sheet
\* in JSON order that is visible, also in the saved file; when no sheet is
\* visible the active selection stays at its default, the first sheet.
C20_VisibilityAndActive ==
    AllSheetsProcessed
    => /\ \A s \in DOMAIN wb :
             /\ wb[s].sheet_state \in Visibilities
             /\ doc.sheets[s].obj.sheet_state \in Visibilities
                => wb[s].sheet_state = doc.sheets[s].obj.sheet_state
             /\ doc.sheets[s].obj.sheet_state \notin Visibilities
                => wb[s].sheet_state = "visible"
       /\ VisibleSheets # {}
          => /\ ActiveIndex(wb, first_visible) = SetMin(VisibleSheets) - 1
             /\ Saved => xlsx[1].active = SetMin(VisibleSheets) - 1
       /\ VisibleSheets = {} => ActiveIndex(wb, first_visible) = 0

\* C20's case: a workbook was saved whose first sheet is hidden and whose
\* second sheet is visible and active
C20_Witness ==
    /\ Saved /\ AllSheetsProcessed
    /\ Len(wb) = 2
    /\ wb[1].sheet_state = "hidden"
    /\ wb[2].sheet_state = "visible"
    /\ xlsx[1].active = 1

====
